---- MODULE Spec2Model ----
(***************************************************************************)
(* Model of the IPsec manager: the policy engine (internal/policy), the    *)
(* policy server handlers, the reconciliation agent and the strongSwan     *)
(* tunnel backend.                                                         *)
(***************************************************************************)
EXTENDS Integers, Sequences, FiniteSets, Bags, TLC

(***************************************************************************)
(* Bounds of the model.                                                    *)
(***************************************************************************)
\* longest policy list handed to the policy engine
MaxPolicies == 2
\* number of applyPolicies calls made in a row on one input
MaxRuns == 2
\* number of failures and outside changes the environment may cause
MaxDisturbances == 3

\* the grace period of Stop, in steps of the clock
GracePeriod == 2

\* agent processes started on the node after the first one
MaxRestarts == 2

\* requests the policy server handles in a run
MaxRequests == 3

\* watchdog ticks in a run
MaxTicks == 5

\* ticks of each loop while the lock is followed
MaxLockTicks == 2

(***************************************************************************)
(* Value types (ipsec types, policy.Policy, policy.PeerInfo).              *)
(***************************************************************************)
StateDown == "down"
StateConnecting == "connecting"
StateEstablished == "established"
StateRekeying == "rekeying"
StateError == "error"

TunnelState == {StateDown, StateConnecting, StateEstablished, StateRekeying, StateError}

\* TunnelState is a string type: a value that is none of the five constants
StateUndefined == "unknown"

\* what the State field of a TunnelStatus can hold
StatusValues == TunnelState \cup {StateUndefined}

TunnelNames == {"vpn1", "vpn2", "vpn3"}

TunnelConfig(name, enc, auto) == [Name |-> name, Encryption |-> enc, AutoStart |-> auto]

Policy(id, name, prio, enabled, targets, tunnels) ==
    [ID |-> id, Name |-> name, Priority |-> prio, Enabled |-> enabled,
     AppliesTo |-> targets, Tunnels |-> tunnels]

PeerInfo(id, tags) == [ID |-> id, Tags |-> tags]

\* the empty Go map
EmptyMap == [n \in {} |-> TunnelConfig("", "", FALSE)]

\* m[k] = v on a Go map
MapSet(m, k, v) == [n \in (DOMAIN m) \cup {k} |-> IF n = k THEN v ELSE m[n]]

\* delete(m, k) on a Go map
MapDel(m, k) == [n \in (DOMAIN m) \ {k} |-> m[n]]

Range(s) == {s[i] : i \in DOMAIN s}

(***************************************************************************)
(* Policy engine (internal/policy/schema.go).                              *)
(***************************************************************************)
\* a target loop that compares the targets with the peer id and "*" only
MatchTargetsWithoutTags(targets, peer, pol) ==
    IF \E i \in DOMAIN targets : targets[i] = peer.ID \/ targets[i] = "*"
    THEN <<pol>> ELSE <<>>

\* inner loops of FilterPoliciesForPeer over policy.AppliesTo: the policy is
\* appended and the target loop left on a peer id or "*"; a target equal to
\* a tag appends the policy and leaves only the tag loop
RECURSIVE MatchTargets(_, _, _)
MatchTargets(targets, peer, pol) ==
    IF targets = <<>> THEN <<>>
    ELSE LET target == Head(targets) IN
         IF target = peer.ID \/ target = "*" THEN <<pol>>
         ELSE (IF \E i \in DOMAIN peer.Tags : peer.Tags[i] = target
               THEN <<pol>> ELSE <<>>)
              \o MatchTargets(Tail(targets), peer, pol)

RECURSIVE FilterPoliciesForPeer(_, _)
FilterPoliciesForPeer(policies, peer) ==
    IF policies = <<>> THEN <<>>
    ELSE LET pol == Head(policies)
             rest == FilterPoliciesForPeer(Tail(policies), peer)
         IN  IF ~pol.Enabled THEN rest
             ELSE IF Len(pol.AppliesTo) = 0 THEN <<pol>> \o rest
             ELSE MatchTargets(pol.AppliesTo, peer, pol) \o rest

\* the loop over policy.Tunnels writing tunnelMap[tunnel.Name] = tunnel
RECURSIVE PutTunnels(_, _)
PutTunnels(tunnelMap, tunnels) ==
    IF tunnels = <<>> THEN tunnelMap
    ELSE PutTunnels(MapSet(tunnelMap, Head(tunnels).Name, Head(tunnels)), Tail(tunnels))

RECURSIVE MergeInto(_, _)
MergeInto(tunnelMap, policies) ==
    IF policies = <<>> THEN tunnelMap
    ELSE MergeInto(PutTunnels(tunnelMap, Head(policies).Tunnels), Tail(policies))

\* MergeTunnels: the result slice is built by ranging over tunnelMap, so it is
\* the map's values in no particular order; it is kept here as the map
MergeTunnels(policies) == MergeInto(EmptyMap, policies)

(***************************************************************************)
(* Policy store (internal/policy/storage.go).                              *)
(***************************************************************************)
\* byte order of the policy names used in the model
NameOrder == <<"backup", "core", "edge">>

NameRank(name) == CHOOSE i \in DOMAIN NameOrder : NameOrder[i] = name

\* ORDER BY priority, name: the DESC forgotten
ListBeforeAscending(p, q) ==
    \/ p.Priority < q.Priority
    \/ p.Priority = q.Priority /\ NameRank(p.Name) < NameRank(q.Name)

\* ORDER BY priority DESC, name ASC
ListBefore(p, q) ==
    \/ p.Priority > q.Priority
    \/ p.Priority = q.Priority /\ NameRank(p.Name) < NameRank(q.Name)

\* rows of the policies table (a set: id is the primary key, name is UNIQUE)
\* in the order of the SELECT
RECURSIVE ListPolicies(_)
ListPolicies(rows) ==
    IF rows = {} THEN <<>>
    ELSE LET first == CHOOSE p \in rows : \A q \in rows \ {p} : ListBefore(p, q)
         IN  <<first>> \o ListPolicies(rows \ {first})

\* a server that answers every stored policy whoever asks
ListForAnyPeer(rows, peer) == ListPolicies(rows)

\* handleListPolicies with ?peer_id=<id>: the stored rows in list order,
\* filtered for the stored peer (enabled is not requested by the agent)
HandleListPolicies(rows, peer) == FilterPoliciesForPeer(ListPolicies(rows), peer)

(***************************************************************************)
(* Agent: the extraction of the desired tunnels at the head of             *)
(* applyPolicies.                                                          *)
(***************************************************************************)
RECURSIVE DesiredInto(_, _)
DesiredInto(desired, policies) ==
    IF policies = <<>> THEN desired
    ELSE IF ~Head(policies).Enabled THEN DesiredInto(desired, Tail(policies))
    ELSE DesiredInto(PutTunnels(desired, Head(policies).Tunnels), Tail(policies))

DesiredTunnels(policies) == DesiredInto(EmptyMap, policies)

(***************************************************************************)
(* Inputs of the policy engine checks.                                     *)
(***************************************************************************)
PolicyIDs == {"p1", "p2", "p3"}

PolicyNameOf(id) == CASE id = "p1" -> "edge" [] id = "p2" -> "backup" [] OTHER -> "core"

TunnelsOf(id) ==
    CASE id = "p1" -> <<TunnelConfig("vpn1", "aes256", TRUE), TunnelConfig("vpn2", "aes128", FALSE)>>
      [] id = "p2" -> <<TunnelConfig("vpn1", "aes128", TRUE)>>
      [] OTHER     -> <<TunnelConfig("vpn2", "aes256", TRUE), TunnelConfig("vpn3", "aes128", TRUE)>>

Priorities == {10, 100}

NodeID == "node-1"

TargetLists == {<<>>, <<"*">>, <<"node-2">>, <<"web", "db">>, <<"gpu", "node-1">>}

TagLists == {<<>>, <<"web", "db">>}

PolicyPool ==
    {Policy(id, PolicyNameOf(id), prio, en, tg, TunnelsOf(id)) :
        id \in PolicyIDs, prio \in Priorities, en \in BOOLEAN, tg \in TargetLists}

\* lists of at most MaxPolicies policies with distinct ids
PolicyLists ==
    UNION {{s \in [1..n -> PolicyPool] : \A i, j \in 1..n : i # j => s[i].ID # s[j].ID} :
           n \in 0..MaxPolicies}

Permutation(s, f) == [i \in DOMAIN s |-> s[f[i]]]

Bijections(n) == {f \in [1..n -> 1..n] : \A i, j \in 1..n : i # j => f[i] # f[j]}

(***************************************************************************)
(* Tunnel backend (LinuxManager): the tunnels are the files of             *)
(* /etc/swanctl/conf.d, kept as a map name -> configuration written.       *)
(* Every operation gives the set of its outcomes; faulty says whether the  *)
(* environment (file system, swanctl, VICI) may fail.                      *)
(***************************************************************************)
Outcome(dir, err) == [confd |-> dir, err |-> err]

\* CreateTunnel: the file is written by generateSwanctlConfig, then loaded;
\* a failure before the write leaves the directory as it was, a failure of
\* loadSwanctlConfig leaves the file written
CreateTunnel(dir, config, faulty) ==
    {Outcome(MapSet(dir, config.Name, config), FALSE)}
    \cup (IF faulty
          THEN {Outcome(dir, TRUE), Outcome(MapSet(dir, config.Name, config), TRUE)}
          ELSE {})

\* DeleteTunnel: os.Remove of the file (a missing file is no error); the
\* failures of StopTunnel and of the reload are ignored
DeleteTunnel(dir, name, faulty) ==
    {Outcome(MapDel(dir, name), FALSE)}
    \cup (IF faulty THEN {Outcome(dir, TRUE)} ELSE {})

\* an update that stops after the delete
UpdateWithoutCreate(dir, config, faulty) == DeleteTunnel(dir, config.Name, faulty)

\* UpdateTunnel: DeleteTunnel, its error only logged, then CreateTunnel
UpdateTunnel(dir, config, faulty) ==
    UNION {CreateTunnel(d.confd, config, faulty) : d \in DeleteTunnel(dir, config.Name, faulty)}

\* a ListTunnels that returns the names it has together with its error
ListTunnelsNamesWithError(dir, faulty) ==
    {[names |-> DOMAIN dir, err |-> FALSE]}
    \cup (IF faulty THEN {[names |-> DOMAIN dir, err |-> TRUE]} ELSE {})

\* ListTunnels: the names of the .conf files; ReadDir may fail (nil, error),
\* and a name whose GetTunnelStatus fails is skipped
ListTunnels(dir, faulty) ==
    {[names |-> DOMAIN dir, err |-> FALSE]}
    \cup (IF faulty
          THEN {[names |-> {}, err |-> TRUE]}
               \cup {[names |-> (DOMAIN dir) \ skipped, err |-> FALSE] :
                        skipped \in SUBSET (DOMAIN dir)}
          ELSE {})

(***************************************************************************)
(* Agent: the decisions of applyPolicies.                                  *)
(***************************************************************************)
\* if currentNames[name] { UpdateTunnel } else { CreateTunnel }
ApplyOp(name, names) == IF name \in names THEN "update" ELSE "create"

\* a delete loop without the test on desiredTunnels
DeleteAllListed(names, desired) == names

\* the names the delete loop calls DeleteTunnel for
DeleteCandidates(names, desired) == names \ (DOMAIN desired)

\* a loop that returns at the first failed call
RemainingUntilFailure(todo, name, err) == IF err THEN {} ELSE todo \ {name}

\* continue after a failed call: the loop goes on with the other names
Remaining(todo, name, err) == todo \ {name}

Call(op, name, err) == [op |-> op, name |-> name, err |-> err]

\* watchdogCheck, lines 370-372: tunnels without autostart are passed over
Watched(config) == config.AutoStart

\* a watchdog that restarts whatever is not established
NeedsRestartUnlessEstablished(state) == state # StateEstablished

\* watchdogCheck, line 380: the states a tunnel is restarted in
NeedsRestart(state) == state \in {StateDown, StateError}

\* nothing seen yet by a watchdog pass
NothingObserved == [n \in {} |-> "skipped"]

\* the goroutines of Start: policySyncLoop, healthCheckLoop, watchdogLoop
Loops == {"sync", "health", "watchdog"}

VARIABLES
    \* policy engine run
    engPhase,       \* "input", "filtered", "merged"
    inPolicies,     \* the policy list as submitted
    inPeer,         \* the peer the list is filtered for
    outFiltered,    \* FilterPoliciesForPeer(inPolicies, inPeer)
    outServed,      \* what handleListPolicies answers for the stored inPolicies
    outMerged,      \* MergeTunnels(outFiltered)
    outReordered,   \* MergeTunnels of the filtered list of a reordered input
    outDesired,     \* the agent's desired tunnels for outServed
    \* environment
    faultsLeft,     \* failures and outside changes the environment may still cause
    \* backend
    confd,          \* /etc/swanctl/conf.d: name -> configuration
    \* agent
    currentPolicies,    \* a.currentPolicies
    currentTunnels,     \* a.currentTunnels
    syncPC,         \* position of syncPolicies/applyPolicies: "idle", "list", "apply"
    lastSync,       \* result of the last syncPolicies: "none", "fetch-failed", "applied"
    fetched,        \* policies decoded from the response
    desiredTunnels, \* applyPolicies' desiredTunnels
    currentNames,   \* applyPolicies' currentNames
    listErr,        \* whether ListTunnels returned an error
    todoApply,      \* desired names the create/update loop has not reached
    todoDelete,     \* current names the delete loop has not reached
    calls,          \* bag of the backend calls issued by this applyPolicies
    agentPC,        \* position of Start: "new", "initialSync", "running"
    \* policy server
    storage,        \* rows of the policies table
    peers,          \* rows of the peers table
    \* two reconciles in a row
    runs,           \* number of applyPolicies calls begun
    prevCalls,      \* calls of the previous applyPolicies
    prevListed,     \* names listed by the backend after the previous applyPolicies
    \* watchdog and health loops
    wdPC,           \* position of watchdogCheck: "idle", "pass"
    wdTunnels,      \* watchdogCheck's copy of a.currentTunnels
    wdTodo,         \* names the loop of watchdogCheck has not reached
    wdObserved,     \* name -> what this pass saw: "skipped", "query-failed" or a state
    wdStarts,       \* bag of the StartTunnel calls of this pass
    healthSeen,     \* names the last checkHealth asked the status of
    healthErrors,   \* names the last checkHealth logged as being in Error state
    \* shutdown
    stopCh,         \* a.stopCh: "open" or "closed"
    ctxDone,        \* whether the context given to Start is cancelled
    loopPC,         \* loop -> "idle", "select", "tick", "stuck", "exited"
    lastTick,       \* loop -> "failed" when its latest pass logged a failure, else "ok"
    stopPC,         \* position of Stop: "none", "waiting", "clean", "timed-out"
    graceLeft,      \* time left until time.After of Stop fires
    platform,       \* runtime.GOOS of the backend: "linux" or "windows"
    saUp,           \* tunnel -> whether the system has a security association for it
    ruleOn,         \* tunnel -> whether its Windows IPsec rule is enabled
    lastReport,     \* tunnel -> state of the latest status report, or "none"
    prevReport,     \* tunnel -> state of the report before the latest, or "none"
    cfgPeerID,      \* peer.id of the configuration, "" when not set
    agentID,        \* a.id of the running agent process, "none" when none runs
    registeredAs,   \* ids the node has sent in a registration
    fetchedAs,      \* ids the node has sent in a policy fetch
    restarts,       \* number of agent processes started so far
    valPolicy,      \* the policy handed to PolicyEngine.Validate
    valResult,      \* what Validate returned for it, or Pending
    policiesTable,  \* the rows of the policies table, by id
    httpResponse,   \* the last response of a policy handler, with its request
    requestsLeft,   \* requests the policy server still handles
    genConfig,      \* the tunnel configuration generateSwanctlConfig is given
    genData,        \* the template data of its last run, or NoData
    genPrev,        \* the template data of the run before, or NoData
    tickTunnels,    \* a.currentTunnels while the watchdog ticks
    tickSeen,       \* name -> what the last watchdogCheck saw of the tunnel
    tickStarts,     \* name -> StartTunnel calls since the tunnel was seen not Down
    ticksLeft,      \* ticks of the watchdog's ticker still to come
    mu,             \* a.mu: the loop holding it for writing, the loops holding it for reading
    muPC,           \* loop -> where it is between taking and releasing a.mu
    muTunnels,      \* a.currentTunnels, guarded by a.mu
    muRecorded,     \* the mappings a.currentTunnels has held: the initial one and those assigned
    muDesired,      \* desiredTunnels of the applyPolicies in progress
    muTodo,         \* loop -> names its loop has not reached
    muSnapshot,     \* loop -> the local copy `tunnels` of checkHealth or watchdogCheck
    muTicks,        \* loop -> ticks of its ticker still to come
    muHung,         \* the loop whose backend call never returns, or "none"
    \* a further call of Stop
    stopAgain       \* "none", "waiting" or "panicked"

engVars == <<engPhase, inPolicies, inPeer, outFiltered, outServed, outMerged,
             outReordered, outDesired>>

applyVars == <<fetched, desiredTunnels, currentNames, listErr, todoApply, todoDelete, calls>>

agentVars == <<currentPolicies, currentTunnels, syncPC, lastSync>>

runVars == <<runs, prevCalls, prevListed>>

srvVars == <<storage, peers>>

loopVars == <<wdPC, wdTunnels, wdTodo, wdObserved, wdStarts, healthSeen, healthErrors>>

lifeVars == <<stopCh, ctxDone, loopPC, lastTick, stopPC, graceLeft>>

\* the variables the steps of the policy engine, the server, the sync and the
\* watchdog leave alone
statusVars == <<platform, saUp, ruleOn, lastReport, prevReport>>

idVars == <<cfgPeerID, agentID, registeredAs, fetchedAs, restarts>>

valVars == <<valPolicy, valResult>>

\* the variables only the specifications written after the shutdown use
submitVars == <<policiesTable, httpResponse, requestsLeft>>

genVars == <<genConfig, genData, genPrev>>

tickVars == <<tickTunnels, tickSeen, tickStarts, ticksLeft>>

muVars == <<mu, muPC, muTunnels, muRecorded, muDesired, muTodo, muSnapshot, muTicks, muHung>>

againVars == <<stopAgain>>

extraVars == <<valVars, submitVars, genVars, tickVars, muVars, againVars>>

\* the variables a call of Validate leaves alone
besidesVal == <<submitVars, genVars, tickVars, muVars, againVars>>

\* the variables a policy handler leaves alone
besidesSubmit == <<valVars, genVars, tickVars, muVars, againVars>>

\* the variables generateSwanctlConfig leaves alone
besidesGen == <<valVars, submitVars, tickVars, muVars, againVars>>

\* the variables a tick of the watchdog leaves alone
besidesTick == <<valVars, submitVars, genVars, muVars, againVars>>

\* the variables a step around a.mu leaves alone
besidesMu == <<valVars, submitVars, genVars, tickVars, againVars>>

\* the variables a further call of Stop leaves alone
besidesAgain == <<valVars, submitVars, genVars, tickVars, muVars>>

sideVars == <<lifeVars, statusVars, idVars, extraVars>>

\* what the engine, the server, the sync and the watchdog work on
mainVars == <<engVars, confd, agentVars, applyVars, runVars, agentPC, srvVars, loopVars>>

\* the variables a step of a loop's select or of Stop leaves alone
notLifeVars == <<mainVars, statusVars, idVars, extraVars>>

vars == <<engVars, faultsLeft, confd, agentVars, applyVars, runVars, agentPC, srvVars,
          loopVars, sideVars>>

(***************************************************************************)
(* Policy engine run on a drawn input.                                     *)
(***************************************************************************)
EngineIdle ==
    /\ engPhase = "input"
    /\ inPolicies = <<>>
    /\ inPeer = PeerInfo(NodeID, <<>>)
    /\ outFiltered = <<>>
    /\ outServed = <<>>
    /\ outMerged = EmptyMap
    /\ outReordered = EmptyMap
    /\ outDesired = EmptyMap

\* no shutdown asked for, the loops as the agent's own steps take them
LifeIdle ==
    /\ stopCh = "open"
    /\ ctxDone = FALSE
    /\ loopPC = [l \in Loops |-> "idle"]
    /\ lastTick = [l \in Loops |-> "ok"]
    /\ stopPC = "none"
    /\ graceLeft = 0

\* the tunnels whose status reports are followed
StatusTunnels == {"vpn1", "vpn2"}

\* a Linux backend without security associations that was never asked
StatusIdle ==
    /\ platform = "linux"
    /\ saUp = [n \in StatusTunnels |-> FALSE]
    /\ ruleOn = [n \in StatusTunnels |-> FALSE]
    /\ lastReport = [n \in StatusTunnels |-> "none"]
    /\ prevReport = [n \in StatusTunnels |-> "none"]

\* peer.id is set to the node's id and one agent process was made
IdIdle ==
    /\ cfgPeerID = NodeID
    /\ agentID = NodeID
    /\ registeredAs = {}
    /\ fetchedAs = {}
    /\ restarts = 0

\* Validate has not returned
Pending == [group |-> "none", index |-> -1, name |-> "", rule |-> "pending"]

\* a Policy value with no name and no tunnels
EmptyPolicy == [Name |-> "", Tunnels |-> <<>>]

\* nothing was handed to Validate
ValIdle ==
    /\ valPolicy = EmptyPolicy
    /\ valResult = Pending

\* a row of the policies table, as far as Validate reads it
PolicyRow(id, name, tunnels) == [ID |-> id, Name |-> name, Tunnels |-> tunnels]

\* no policy handler has run
NoResponse == [op |-> "none", status |-> 0, policy |-> PolicyRow("", "", <<>>)]

SubmitIdle ==
    /\ policiesTable = [id \in {} |-> PolicyRow("", "", <<>>)]
    /\ httpResponse = NoResponse
    /\ requestsLeft = 0

\* generateSwanctlConfig has not run
NoData == [ESPProposal |-> "", AHProposal |-> "", UseAH |-> FALSE,
           childMode |-> "", ahProposals |-> "", generated |-> FALSE]

\* a CryptoConfig and a mode with nothing set
NoConfig == [Mode |-> "", Crypto |-> [Encryption |-> "", Integrity |-> "", DHGroup |-> ""]]

GenIdle ==
    /\ genConfig = NoConfig
    /\ genData = NoData
    /\ genPrev = NoData

\* the watchdog's ticker has not fired
TickIdle ==
    /\ tickTunnels = EmptyMap
    /\ tickSeen = NothingObserved
    /\ tickStarts = [n \in {} |-> 0]
    /\ ticksLeft = 0

\* a.mu of a new Agent: unlocked
Unlocked == [writer |-> "none", readers |-> {}]

\* no loop has come near a.mu
MuIdle ==
    /\ mu = Unlocked
    /\ muPC = [l \in Loops |-> "idle"]
    /\ muTunnels = EmptyMap
    /\ muRecorded = {EmptyMap}
    /\ muDesired = EmptyMap
    /\ muTodo = [l \in Loops |-> {}]
    /\ muSnapshot = [l \in Loops |-> EmptyMap]
    /\ muTicks = [l \in Loops |-> 0]
    /\ muHung = "none"

AgainIdle == stopAgain = "none"

ExtraIdle == ValIdle /\ SubmitIdle /\ GenIdle /\ TickIdle /\ MuIdle /\ AgainIdle

SideIdle == LifeIdle /\ StatusIdle /\ IdIdle /\ ExtraIdle

\* Start has launched the three loops and nobody asked for a shutdown
LifeLaunched ==
    /\ stopCh = "open"
    /\ ctxDone = FALSE
    /\ loopPC = [l \in Loops |-> "select"]
    /\ lastTick = [l \in Loops |-> "ok"]
    /\ stopPC = "none"
    /\ graceLeft = 0

\* the fields of the agent right after agent.New, a server without
\* policies and peers
AgentFresh ==
    /\ currentPolicies = <<>>
    /\ currentTunnels = EmptyMap
    /\ syncPC = "idle"
    /\ lastSync = "none"
    /\ fetched = <<>>
    /\ desiredTunnels = EmptyMap
    /\ currentNames = {}
    /\ listErr = FALSE
    /\ todoApply = {}
    /\ todoDelete = {}
    /\ calls = EmptyBag
    /\ runs = 0
    /\ prevCalls = EmptyBag
    /\ prevListed = {}
    /\ agentPC = "new"
    /\ storage = {}
    /\ peers = {}
    /\ wdPC = "idle"
    /\ wdTunnels = EmptyMap
    /\ wdTodo = {}
    /\ wdObserved = NothingObserved
    /\ wdStarts = EmptyBag
    /\ healthSeen = {}
    /\ healthErrors = {}

\* the agent and its backend right after agent.New
AgentNew == AgentFresh /\ SideIdle

InitEngine ==
    /\ engPhase = "input"
    /\ inPolicies \in PolicyLists
    /\ inPeer \in {PeerInfo(NodeID, tags) : tags \in TagLists}
    /\ outFiltered = <<>>
    /\ outServed = <<>>
    /\ outMerged = EmptyMap
    /\ outReordered = EmptyMap
    /\ outDesired = EmptyMap
    /\ faultsLeft = 0
    /\ confd = EmptyMap
    /\ AgentNew

RunFilter ==
    /\ engPhase = "input"
    /\ engPhase' = "filtered"
    /\ outFiltered' = FilterPoliciesForPeer(inPolicies, inPeer)
    /\ outServed' = HandleListPolicies(Range(inPolicies), inPeer)
    /\ UNCHANGED <<inPolicies, inPeer, outMerged, outReordered, outDesired>>
    /\ UNCHANGED <<faultsLeft, confd, agentVars, applyVars, runVars, loopVars, agentPC, srvVars>>
    /\ UNCHANGED sideVars

RunMerge ==
    /\ engPhase = "filtered"
    /\ engPhase' = "merged"
    /\ outMerged' = MergeTunnels(outFiltered)
    /\ \E f \in Bijections(Len(inPolicies)) :
          outReordered' =
              MergeTunnels(FilterPoliciesForPeer(Permutation(inPolicies, f), inPeer))
    /\ outDesired' = DesiredTunnels(outServed)
    /\ UNCHANGED <<inPolicies, inPeer, outFiltered, outServed>>
    /\ UNCHANGED <<faultsLeft, confd, agentVars, applyVars, runVars, loopVars, agentPC, srvVars>>
    /\ UNCHANGED sideVars

NextEngine == RunFilter \/ RunMerge

SpecEngine == InitEngine /\ [][NextEngine]_vars

(***************************************************************************)
(* Properties of the policy engine.                                        *)
(***************************************************************************)
Targets(pol) == Range(pol.AppliesTo)

\* the targeting rule: enabled, and no targets, "*", the node's id or a tag
\* the node carries
Applicable(pol, peer) ==
    /\ pol.Enabled
    /\ \/ Targets(pol) = {}
       \/ "*" \in Targets(pol)
       \/ peer.ID \in Targets(pol)
       \/ Targets(pol) \cap Range(peer.Tags) # {}

\* policies of the list that define a tunnel of this name
Defining(policies, name) ==
    {pol \in Range(policies) : \E t \in Range(pol.Tunnels) : t.Name = name}

\* the definitions of the tunnel in the policies of highest priority among
\* those defining it
HighestDefinitions(policies, name) ==
    {t \in UNION {Range(pol.Tunnels) : pol \in
                    {p \in Defining(policies, name) :
                        \A q \in Defining(policies, name) : q.Priority <= p.Priority}} :
        t.Name = name}

UsesHighestPriority(merged, policies) ==
    \A name \in DOMAIN merged : merged[name] \in HighestDefinitions(policies, name)

\* C3 as claimed: every tunnel of the merged mapping, in MergeTunnels and in
\* the mapping the agent applies, has the definition given by the policy of
\* highest priority among the applicable policies defining it
C3_HigherPriorityWins ==
    engPhase = "merged" =>
        /\ UsesHighestPriority(outMerged, outFiltered)
        /\ UsesHighestPriority(outDesired, outServed)

\* C4 as claimed: merging the policies in another order gives the same
\* definition for every tunnel
C4_MergeOrderIndependent ==
    engPhase = "merged" => outReordered = outMerged

\* C5: FilterPoliciesForPeer returns the policies of the input to which the
\* targeting rule applies, and no other
C5_FilterKeepsExactlyApplicable ==
    engPhase # "input" =>
        /\ \A pol \in Range(inPolicies) :
              pol \in Range(outFiltered) <=> Applicable(pol, inPeer)
        /\ Range(outFiltered) \subseteq Range(inPolicies)

\* a policy kept for a tag alone next to an enabled policy left out
C5_Witness ==
    /\ engPhase = "filtered"
    /\ \E pol \in Range(outFiltered) :
          /\ Targets(pol) \cap Range(inPeer.Tags) # {}
          /\ inPeer.ID \notin Targets(pol) /\ "*" \notin Targets(pol)
    /\ \E pol \in Range(inPolicies) : pol.Enabled /\ pol \notin Range(outFiltered)

\* descending priority, equal priorities by ascending name
SortedByPriorityThenName(s) ==
    \A i, j \in DOMAIN s :
        i < j => \/ s[i].Priority > s[j].Priority
                 \/ /\ s[i].Priority = s[j].Priority
                    /\ NameRank(s[i].Name) <= NameRank(s[j].Name)

\* position of a policy in the input list (ids are distinct there)
InputIndex(pol) == CHOOSE i \in DOMAIN inPolicies : inPolicies[i] = pol

\* C6 as claimed: the list FilterPoliciesForPeer returns is sorted by
\* descending priority, then name, whatever the order of its input
C6_FilterSortsItsResult ==
    engPhase # "input" => SortedByPriorityThenName(outFiltered)

\* C6 amended: FilterPoliciesForPeer keeps the order of its input, and the
\* list it returns for the rows of ListPolicies, which is what the server
\* gives it, is sorted by descending priority, then name
C6_ServedListIsSorted ==
    engPhase # "input" =>
        /\ SortedByPriorityThenName(outServed)
        /\ \A i, j \in DOMAIN outFiltered :
              i < j => InputIndex(outFiltered[i]) <= InputIndex(outFiltered[j])
        /\ Range(outServed) = Range(outFiltered)

\* two applicable policies submitted in the opposite of list order
C6_Witness ==
    /\ engPhase = "filtered"
    /\ Len(outFiltered) >= 2
    /\ ~SortedByPriorityThenName(outFiltered)
    /\ outServed # outFiltered
    /\ \E i, j \in DOMAIN outServed : outServed[i].Priority > outServed[j].Priority

(***************************************************************************)
(* applyPolicies, one backend call per step.                               *)
(***************************************************************************)
\* the environment's account after a step in which it did, or did not, fail
\* or change something
Spend(disturbed) == IF disturbed THEN faultsLeft - 1 ELSE faultsLeft

\* lines 219-240: the desired tunnels, ListTunnels, currentNames
ApplyList ==
    /\ syncPC = "list"
    /\ \E l \in ListTunnels(confd, faultsLeft > 0) :
          /\ currentNames' = l.names
          /\ listErr' = l.err
          /\ todoDelete' = DeleteCandidates(l.names, DesiredTunnels(fetched))
          /\ faultsLeft' = Spend(l \notin ListTunnels(confd, FALSE))
    /\ desiredTunnels' = DesiredTunnels(fetched)
    /\ todoApply' = DOMAIN DesiredTunnels(fetched)
    /\ syncPC' = "apply"
    /\ UNCHANGED <<fetched, calls, confd, currentPolicies, currentTunnels, lastSync>>
    /\ UNCHANGED <<engVars, runVars, loopVars, agentPC, srvVars>>
    /\ UNCHANGED sideVars

\* lines 242-259: one iteration of the create-or-update loop (a Go map is
\* ranged over in any order)
ApplyCreateOrUpdate ==
    /\ syncPC = "apply"
    /\ \E name \in todoApply :
          LET op == ApplyOp(name, currentNames)
              outs == IF op = "update"
                      THEN UpdateTunnel(confd, desiredTunnels[name], faultsLeft > 0)
                      ELSE CreateTunnel(confd, desiredTunnels[name], faultsLeft > 0)
          IN  \E o \in outs :
                 /\ confd' = o.confd
                 /\ calls' = calls (+) SetToBag({Call(op, name, o.err)})
                 /\ todoApply' = Remaining(todoApply, name, o.err)
                 /\ faultsLeft' = Spend(o.err)
    /\ UNCHANGED <<fetched, desiredTunnels, currentNames, listErr, todoDelete>>
    /\ UNCHANGED <<agentVars, engVars, runVars, loopVars, agentPC, srvVars>>
    /\ UNCHANGED sideVars

\* lines 261-270: one iteration of the delete loop
ApplyDelete ==
    /\ syncPC = "apply"
    /\ todoApply = {}
    /\ \E name \in todoDelete :
          \E o \in DeleteTunnel(confd, name, faultsLeft > 0) :
             /\ confd' = o.confd
             /\ calls' = calls (+) SetToBag({Call("delete", name, o.err)})
             /\ todoDelete' = Remaining(todoDelete, name, o.err)
             /\ faultsLeft' = Spend(o.err)
    /\ UNCHANGED <<fetched, desiredTunnels, currentNames, listErr, todoApply>>
    /\ UNCHANGED <<agentVars, engVars, runVars, loopVars, agentPC, srvVars>>
    /\ UNCHANGED sideVars

\* a recording that leaves out the tunnels whose create or update failed
ApplyRecordSucceeded ==
    /\ syncPC = "apply"
    /\ todoApply = {}
    /\ todoDelete = {}
    /\ currentTunnels' =
          [n \in {m \in DOMAIN desiredTunnels :
                     /\ ~BagIn(Call("create", m, TRUE), calls)
                     /\ ~BagIn(Call("update", m, TRUE), calls)} |-> desiredTunnels[n]]
    /\ currentPolicies' = fetched
    /\ syncPC' = "idle"
    /\ lastSync' = "applied"
    /\ UNCHANGED <<applyVars, confd, engVars, faultsLeft, runVars, loopVars, agentPC, srvVars>>
    /\ UNCHANGED sideVars

\* lines 272-276 and, back in syncPolicies, 210-214: the mapping and the
\* policy list are recorded
ApplyRecord ==
    /\ syncPC = "apply"
    /\ todoApply = {}
    /\ todoDelete = {}
    /\ currentTunnels' = desiredTunnels
    /\ currentPolicies' = fetched
    /\ syncPC' = "idle"
    /\ lastSync' = "applied"
    /\ UNCHANGED <<applyVars, confd, engVars, faultsLeft, runVars, loopVars, agentPC, srvVars>>
    /\ UNCHANGED sideVars

ApplyNext == ApplyList \/ ApplyCreateOrUpdate \/ ApplyDelete \/ ApplyRecord

(***************************************************************************)
(* applyPolicies on any directory content, the backend failing up to       *)
(* MaxDisturbances times; when nothing failed it is called again with the  *)
(* same policies, MaxRuns times in all.                                    *)
(***************************************************************************)
\* a configuration file left in conf.d by somebody else
ExistingConfig(name) == TunnelConfig(name, "aes128", FALSE)

\* the contents of conf.d before the agent touches it
Directories ==
    {[n \in names |-> ExistingConfig(n)] : names \in SUBSET TunnelNames}

\* policy lists as the agent may decode them, whatever the source put into
\* them: policies for every node and a policy for another node
ReconcileInputs ==
    {s \in PolicyLists :
        \A i \in DOMAIN s :
           /\ s[i].Priority = 100
           /\ \/ s[i].AppliesTo = <<>>
              \/ s[i].ID = "p3" /\ s[i].AppliesTo = <<"node-2">>}

InitReconcile ==
    /\ EngineIdle
    /\ AgentNew
    /\ faultsLeft = MaxDisturbances
    /\ confd \in Directories

\* applyPolicies(ctx, policies) is entered
CallApplyPolicies ==
    /\ syncPC = "idle"
    /\ runs < MaxRuns
    /\ \/ runs = 0 /\ fetched' \in ReconcileInputs
       \/ runs > 0 /\ faultsLeft = MaxDisturbances /\ fetched' = fetched
    /\ runs' = runs + 1
    /\ prevCalls' = calls
    /\ prevListed' = DOMAIN confd
    /\ calls' = EmptyBag
    /\ syncPC' = "list"
    /\ UNCHANGED <<desiredTunnels, currentNames, listErr, todoApply, todoDelete>>
    /\ UNCHANGED <<currentPolicies, currentTunnels, lastSync, confd, faultsLeft, engVars, agentPC, srvVars>>
    /\ UNCHANGED loopVars
    /\ UNCHANGED sideVars

NextReconcile == CallApplyPolicies \/ ApplyNext

SpecReconcile == InitReconcile /\ [][NextReconcile]_vars

(***************************************************************************)
(* The system: the policy server with its operator, the agent (Start and   *)
(* the policy sync loop) and the backend directory.                        *)
(***************************************************************************)
\* peer.tags of the agent's configuration
NodeTags == <<"web", "db">>

Node == PeerInfo(NodeID, NodeTags)

\* the policies the operator submits
OperatorPolicies ==
    {pol \in PolicyPool :
        \/ pol.ID = "p1" /\ pol.Priority = 100 /\ pol.Enabled /\ pol.AppliesTo = <<>>
        \/ pol.ID = "p2" /\ pol.Priority = 10 /\ pol.AppliesTo = <<"web", "db">>
        \/ pol.ID = "p3" /\ pol.Priority = 100 /\ pol.Enabled /\ pol.AppliesTo = <<"node-2">>}

\* the files somebody else writes to conf.d or removes from it
ForeignNames == TunnelNames

Init ==
    /\ EngineIdle
    /\ AgentNew
    /\ faultsLeft = MaxDisturbances
    /\ confd = EmptyMap

Registered == \E peer \in peers : peer.ID = NodeID

\* handleCreatePolicy and handleUpdatePolicy: SavePolicy inserts the row or
\* replaces the row of the same id
HandleSavePolicy ==
    /\ faultsLeft > 0
    /\ \E pol \in OperatorPolicies :
          storage' = {row \in storage : row.ID # pol.ID} \cup {pol}
    /\ storage' # storage
    /\ faultsLeft' = Spend(TRUE)
    /\ UNCHANGED <<peers, engVars, confd, agentVars, applyVars, runVars, loopVars, agentPC>>
    /\ UNCHANGED sideVars

\* handleDeletePolicy
HandleDeletePolicy ==
    /\ faultsLeft > 0
    /\ \E row \in storage : storage' = storage \ {row}
    /\ faultsLeft' = Spend(TRUE)
    /\ UNCHANGED <<peers, engVars, confd, agentVars, applyVars, runVars, loopVars, agentPC>>
    /\ UNCHANGED sideVars

\* somebody else writes or removes a file of conf.d
ExternalChange ==
    /\ faultsLeft > 0
    /\ faultsLeft' = Spend(TRUE)
    /\ \E name \in ForeignNames :
          /\ confd' \in {MapSet(confd, name, ExistingConfig(name)), MapDel(confd, name)}
          /\ confd' # confd
    /\ UNCHANGED <<engVars, agentVars, applyVars, runVars, loopVars, agentPC, srvVars>>
    /\ UNCHANGED sideVars

\* Start, lines 91-94: register; its failure is only logged
StartRegister ==
    /\ agentPC = "new"
    /\ agentPC' = "initialSync"
    /\ \/ peers' = {peer \in peers : peer.ID # NodeID} \cup {Node} /\ faultsLeft' = faultsLeft
       \/ faultsLeft > 0 /\ peers' = peers /\ faultsLeft' = Spend(TRUE)
    /\ UNCHANGED <<storage, engVars, confd, agentVars, applyVars, runVars, loopVars>>
    /\ UNCHANGED sideVars

\* a Start that may sync again and again before it launches the loops
SyncDueRepeatedly ==
    /\ syncPC = "idle"
    /\ agentPC \in {"initialSync", "running"}

\* syncPolicies is entered: by Start (lines 96-99) or by a tick of
\* policySyncLoop (lines 288-291)
SyncDue ==
    /\ syncPC = "idle"
    /\ \/ agentPC = "initialSync" /\ lastSync = "none"
       \/ agentPC = "running"

\* a syncPolicies that forgets what it applied when the fetch fails
SyncFetchFailClears ==
    /\ SyncDue
    /\ \/ faultsLeft > 0 /\ faultsLeft' = Spend(TRUE)
       \/ ~Registered /\ faultsLeft' = faultsLeft
    /\ lastSync' = "fetch-failed"
    /\ calls' = EmptyBag
    /\ currentTunnels' = EmptyMap
    /\ currentPolicies' = <<>>
    /\ UNCHANGED <<syncPC, fetched, desiredTunnels, currentNames, listErr, todoApply, todoDelete>>
    /\ UNCHANGED <<engVars, confd, runVars, loopVars, agentPC, srvVars>>
    /\ UNCHANGED sideVars

\* syncPolicies, lines 182-196 and 199-201: the request fails, the server
\* answers 404 for an unknown peer, or the body does not decode
SyncFetchFail ==
    /\ SyncDue
    /\ \/ faultsLeft > 0 /\ faultsLeft' = Spend(TRUE)
       \/ ~Registered /\ faultsLeft' = faultsLeft
    /\ lastSync' = "fetch-failed"
    /\ calls' = EmptyBag
    /\ UNCHANGED <<currentPolicies, currentTunnels, syncPC>>
    /\ UNCHANGED <<fetched, desiredTunnels, currentNames, listErr, todoApply, todoDelete>>
    /\ UNCHANGED <<engVars, confd, runVars, loopVars, agentPC, srvVars>>
    /\ UNCHANGED sideVars

\* syncPolicies, lines 182-206: the policies are fetched and applyPolicies is
\* entered
SyncFetchOK ==
    /\ SyncDue
    /\ Registered
    /\ fetched' = HandleListPolicies(storage, CHOOSE peer \in peers : peer.ID = NodeID)
    /\ calls' = EmptyBag
    /\ syncPC' = "list"
    /\ UNCHANGED <<currentPolicies, currentTunnels, lastSync>>
    /\ UNCHANGED <<desiredTunnels, currentNames, listErr, todoApply, todoDelete>>
    /\ UNCHANGED <<engVars, faultsLeft, confd, runVars, loopVars, agentPC, srvVars>>
    /\ UNCHANGED sideVars

\* Start, lines 101-107: the loops are launched
StartLaunch ==
    /\ agentPC = "initialSync"
    /\ syncPC = "idle"
    /\ lastSync # "none"
    /\ agentPC' = "running"
    /\ loopPC' = [l \in Loops |-> "select"]
    /\ UNCHANGED <<stopCh, ctxDone, lastTick, stopPC, graceLeft>>
    /\ UNCHANGED <<engVars, faultsLeft, confd, agentVars, applyVars, runVars, loopVars, srvVars>>
    /\ UNCHANGED <<statusVars, idVars, extraVars>>

\* watchdogCheck, lines 362-367: a tick of watchdogLoop, the tunnels are
\* copied under the read lock
WatchdogTick ==
    /\ agentPC = "running"
    /\ wdPC = "idle"
    /\ wdPC' = "pass"
    /\ wdTunnels' = currentTunnels
    /\ wdTodo' = DOMAIN currentTunnels
    /\ wdObserved' = NothingObserved
    /\ wdStarts' = EmptyBag
    /\ UNCHANGED <<healthSeen, healthErrors, engVars, faultsLeft, confd, agentVars, applyVars, runVars,
                   agentPC, srvVars>>
    /\ UNCHANGED sideVars

\* watchdogCheck, lines 369-387: one iteration of the loop over the copy;
\* GetTunnelStatus answers an error or any value of the State field, StartTunnel succeeds or fails
WatchdogVisit ==
    /\ wdPC = "pass"
    /\ \E name \in wdTodo :
          /\ wdTodo' = wdTodo \ {name}
          /\ IF ~Watched(wdTunnels[name])
             THEN /\ wdObserved' = MapSet(wdObserved, name, "skipped")
                  /\ UNCHANGED <<wdStarts, faultsLeft>>
             ELSE \/ /\ faultsLeft > 0
                     /\ faultsLeft' = Spend(TRUE)
                     /\ wdObserved' = MapSet(wdObserved, name, "query-failed")
                     /\ UNCHANGED wdStarts
                  \/ \E state \in StatusValues :
                        /\ wdObserved' = MapSet(wdObserved, name, state)
                        /\ IF NeedsRestart(state)
                           THEN \E err \in {e \in BOOLEAN : e => faultsLeft > 0} :
                                   /\ wdStarts' = wdStarts (+) SetToBag({Call("start", name, err)})
                                   /\ faultsLeft' = Spend(err)
                           ELSE UNCHANGED <<wdStarts, faultsLeft>>
    /\ UNCHANGED <<wdPC, wdTunnels, healthSeen, healthErrors>>
    /\ UNCHANGED <<engVars, confd, agentVars, applyVars, runVars, agentPC, srvVars>>
    /\ UNCHANGED sideVars

\* watchdogCheck returns
WatchdogDone ==
    /\ wdPC = "pass"
    /\ wdTodo = {}
    /\ wdPC' = "idle"
    /\ wdTunnels' = EmptyMap
    /\ wdObserved' = NothingObserved
    /\ wdStarts' = EmptyBag
    /\ UNCHANGED <<wdTodo, healthSeen, healthErrors>>
    /\ UNCHANGED <<engVars, faultsLeft, confd, agentVars, applyVars, runVars, agentPC, srvVars>>
    /\ UNCHANGED sideVars

\* a checkHealth that restarts the tunnels it finds in Error state
CheckHealthRestarts ==
    /\ agentPC = "running"
    /\ healthSeen' = DOMAIN currentTunnels
    /\ \E failed \in SUBSET (DOMAIN currentTunnels) :
       \E errors \in SUBSET (DOMAIN currentTunnels \ failed) :
          /\ Cardinality(failed) + Cardinality(errors) <= faultsLeft
          /\ faultsLeft' = faultsLeft - (Cardinality(failed) + Cardinality(errors))
          /\ healthErrors' = errors
          /\ wdStarts' = wdStarts (+) SetToBag({Call("start", name, FALSE) : name \in errors})
    /\ UNCHANGED <<wdPC, wdTunnels, wdTodo, wdObserved>>
    /\ UNCHANGED <<engVars, confd, agentVars, applyVars, runVars, agentPC, srvVars>>
    /\ UNCHANGED sideVars

\* checkHealth, lines 320-339: a tick of healthCheckLoop asks the status of
\* every tunnel of a copy of a.currentTunnels; where GetTunnelStatus fails it
\* logs a warning and goes on (lines 330-333), where the tunnel is in Error
\* state it logs an error (lines 335-337), and that is all it does
CheckHealth ==
    /\ agentPC = "running"
    /\ healthSeen' = DOMAIN currentTunnels
    /\ \E failed \in SUBSET (DOMAIN currentTunnels) :
       \E errors \in SUBSET (DOMAIN currentTunnels \ failed) :
          /\ Cardinality(failed) + Cardinality(errors) <= faultsLeft
          /\ faultsLeft' = faultsLeft - (Cardinality(failed) + Cardinality(errors))
          /\ healthErrors' = errors
    /\ UNCHANGED <<wdPC, wdTunnels, wdTodo, wdObserved, wdStarts>>
    /\ UNCHANGED <<engVars, confd, agentVars, applyVars, runVars, agentPC, srvVars>>
    /\ UNCHANGED sideVars

\* Start and the policy sync loop
AgentNext ==
    \/ StartRegister
    \/ SyncFetchFail
    \/ SyncFetchOK
    \/ ApplyList
    \/ ApplyCreateOrUpdate
    \/ ApplyDelete
    \/ ApplyRecord
    \/ StartLaunch

\* the watchdog and health loops
LoopNext ==
    \/ WatchdogTick
    \/ WatchdogVisit
    \/ WatchdogDone
    \/ CheckHealth

\* the operator, the other writers of conf.d, Start and the policy sync loop
SyncNext ==
    \/ HandleSavePolicy
    \/ HandleDeletePolicy
    \/ ExternalChange
    \/ AgentNext

Next == SyncNext \/ LoopNext

Spec == Init /\ [][Next]_vars

(***************************************************************************)
(* The watchdog and health loops of a running agent on any mapping an      *)
(* applyPolicies can have recorded.                                        *)
(***************************************************************************)
\* the lists handleListPolicies serves to the node: no policy for another node
WatchInputs == {s \in ReconcileInputs : \A i \in DOMAIN s : s[i].AppliesTo = <<>>}

InitWatch ==
    /\ EngineIdle
    /\ faultsLeft = MaxDisturbances
    /\ confd = EmptyMap
    /\ \E policies \in WatchInputs :
          /\ currentPolicies = policies
          /\ currentTunnels = DesiredTunnels(policies)
    /\ syncPC = "idle"
    /\ lastSync = "applied"
    /\ fetched = currentPolicies
    /\ desiredTunnels = currentTunnels
    /\ currentNames = {}
    /\ listErr = FALSE
    /\ todoApply = {}
    /\ todoDelete = {}
    /\ calls = EmptyBag
    /\ runs = 0
    /\ prevCalls = EmptyBag
    /\ prevListed = {}
    /\ agentPC = "running"
    /\ storage = {}
    /\ peers = {}
    /\ wdPC = "idle"
    /\ wdTunnels = EmptyMap
    /\ wdTodo = {}
    /\ wdObserved = NothingObserved
    /\ wdStarts = EmptyBag
    /\ healthSeen = {}
    /\ healthErrors = {}
    /\ LifeLaunched
    /\ StatusIdle
    /\ IdIdle
    /\ ExtraIdle

SpecWatch == InitWatch /\ [][LoopNext]_vars

\* the ticker of policySyncLoop keeps firing and every call returns; the
\* watchdog and health loops, which write nothing the sync reads, are left out
SpecLive == Init /\ [][SyncNext]_vars /\ WF_vars(AgentNext)

(***************************************************************************)
(* Shutdown: the select of the three loops, Stop and the context given to  *)
(* Start.  The body of a tick is the pass modelled above; here only its    *)
(* ending counts: it returns, it returns after a failure it logged, or the *)
(* backend or network call it is in never returns.                         *)
(***************************************************************************)
AllExited == \A l \in Loops : loopPC[l] \in {"idle", "exited"}

\* the select of a loop takes the ticker case; select chooses among the ready
\* cases at random, so the ticker case can be taken after stopCh was closed
LoopTick(l) ==
    /\ loopPC[l] = "select"
    /\ loopPC' = [loopPC EXCEPT ![l] = "tick"]
    /\ UNCHANGED <<stopCh, ctxDone, lastTick, stopPC, graceLeft>>
    /\ UNCHANGED <<faultsLeft, notLifeVars>>

\* a loop that returns from its goroutine when its pass failed
LoopTickDoneFatal(l) ==
    /\ loopPC[l] = "tick"
    /\ \/ /\ lastTick' = [lastTick EXCEPT ![l] = "ok"]
          /\ loopPC' = [loopPC EXCEPT ![l] = "select"]
          /\ faultsLeft' = faultsLeft
       \/ /\ faultsLeft > 0
          /\ faultsLeft' = Spend(TRUE)
          /\ lastTick' = [lastTick EXCEPT ![l] = "failed"]
          /\ loopPC' = [loopPC EXCEPT ![l] = "exited"]
    /\ UNCHANGED <<stopCh, ctxDone, stopPC, graceLeft>>
    /\ UNCHANGED notLifeVars

\* the pass of a tick returns: syncPolicies with or without an error (lines
\* 288-291), checkHealth and watchdogCheck after logging what failed; the
\* loop is back at its select
LoopTickDone(l) ==
    /\ loopPC[l] = "tick"
    /\ loopPC' = [loopPC EXCEPT ![l] = "select"]
    /\ \/ /\ lastTick' = [lastTick EXCEPT ![l] = "ok"]
          /\ faultsLeft' = faultsLeft
       \/ /\ faultsLeft > 0
          /\ faultsLeft' = Spend(TRUE)
          /\ lastTick' = [lastTick EXCEPT ![l] = "failed"]
    /\ UNCHANGED <<stopCh, ctxDone, stopPC, graceLeft>>
    /\ UNCHANGED notLifeVars

\* the backend or network call of a tick never returns
LoopHang(l) ==
    /\ loopPC[l] = "tick"
    /\ faultsLeft > 0
    /\ faultsLeft' = Spend(TRUE)
    /\ loopPC' = [loopPC EXCEPT ![l] = "stuck"]
    /\ UNCHANGED <<stopCh, ctxDone, lastTick, stopPC, graceLeft>>
    /\ UNCHANGED notLifeVars

\* a shutdown signal only the policy sync loop listens to
LoopExitOnlySync(l) ==
    /\ l = "sync"
    /\ loopPC[l] = "select"
    /\ stopCh = "closed" \/ ctxDone
    /\ loopPC' = [loopPC EXCEPT ![l] = "exited"]
    /\ UNCHANGED <<stopCh, ctxDone, lastTick, stopPC, graceLeft>>
    /\ UNCHANGED <<faultsLeft, notLifeVars>>

\* the select of a loop takes the stopCh or the ctx.Done() case: the loop
\* returns and its deferred wg.Done() runs
LoopExit(l) ==
    /\ loopPC[l] = "select"
    /\ stopCh = "closed" \/ ctxDone
    /\ loopPC' = [loopPC EXCEPT ![l] = "exited"]
    /\ UNCHANGED <<stopCh, ctxDone, lastTick, stopPC, graceLeft>>
    /\ UNCHANGED <<faultsLeft, notLifeVars>>

\* the caller of Start cancels its context
CancelContext ==
    /\ ~ctxDone
    /\ ctxDone' = TRUE
    /\ UNCHANGED <<stopCh, loopPC, lastTick, stopPC, graceLeft>>
    /\ UNCHANGED <<faultsLeft, notLifeVars>>

\* Stop, lines 112-120: stopCh is closed, a goroutine waits for the loops and
\* the timer of time.After is armed
CallStop ==
    /\ stopPC = "none"
    /\ stopCh = "open"
    /\ stopCh' = "closed"
    /\ stopPC' = "waiting"
    /\ graceLeft' = GracePeriod
    /\ UNCHANGED <<ctxDone, loopPC, lastTick>>
    /\ UNCHANGED <<faultsLeft, notLifeVars>>

\* time passes while Stop waits in its select with neither case ready
ClockTick ==
    /\ stopPC = "waiting"
    /\ ~AllExited
    /\ graceLeft > 0
    /\ graceLeft' = graceLeft - 1
    /\ UNCHANGED <<stopCh, ctxDone, loopPC, lastTick, stopPC>>
    /\ UNCHANGED <<faultsLeft, notLifeVars>>

\* Stop, lines 122-124: wg.Wait() returned and done was closed
StopClean ==
    /\ stopPC = "waiting"
    /\ AllExited
    /\ stopPC' = "clean"
    /\ UNCHANGED <<stopCh, ctxDone, loopPC, lastTick, graceLeft>>
    /\ UNCHANGED <<faultsLeft, notLifeVars>>

\* a Stop without the time.After case
StopNeverTimesOut ==
    /\ FALSE
    /\ UNCHANGED vars

\* Stop, lines 125-127: the timer fired
StopTimeout ==
    /\ stopPC = "waiting"
    /\ graceLeft = 0
    /\ stopPC' = "timed-out"
    /\ UNCHANGED <<stopCh, ctxDone, loopPC, lastTick, graceLeft>>
    /\ UNCHANGED <<faultsLeft, notLifeVars>>

\* an agent that was only constructed, or whose Start has registered and
\* has made its initial sync against a server without policies, each with or
\* without success
InitStop ==
    /\ EngineIdle
    /\ faultsLeft = MaxDisturbances
    /\ confd = EmptyMap
    /\ currentPolicies = <<>>
    /\ currentTunnels = EmptyMap
    /\ syncPC = "idle"
    /\ fetched = <<>>
    /\ desiredTunnels = EmptyMap
    /\ currentNames = {}
    /\ listErr = FALSE
    /\ todoApply = {}
    /\ todoDelete = {}
    /\ calls = EmptyBag
    /\ runs = 0
    /\ prevCalls = EmptyBag
    /\ prevListed = {}
    /\ storage = {}
    /\ \/ agentPC = "new" /\ peers = {} /\ lastSync = "none"
       \/ agentPC = "initialSync" /\ peers = {} /\ lastSync = "fetch-failed"
       \/ agentPC = "initialSync" /\ peers = {Node} /\ lastSync \in {"fetch-failed", "applied"}
    /\ wdPC = "idle"
    /\ wdTunnels = EmptyMap
    /\ wdTodo = {}
    /\ wdObserved = NothingObserved
    /\ wdStarts = EmptyBag
    /\ healthSeen = {}
    /\ healthErrors = {}
    /\ SideIdle

LoopStep(l) == LoopTick(l) \/ LoopTickDone(l) \/ LoopHang(l) \/ LoopExit(l)

StopStep == ClockTick \/ StopClean \/ StopTimeout

NextStop ==
    \/ StartLaunch
    \/ \E l \in Loops : LoopStep(l)
    \/ CancelContext
    \/ CallStop
    \/ StopStep

\* the runtime runs every goroutine that can run: a pass that can return
\* does, a select with a ready case takes one, and since select chooses at
\* random among the ready cases a loop whose stopCh or ctx.Done() case is
\* ready again and again takes it; the timer of Stop runs
SpecStop ==
    /\ InitStop
    /\ [][NextStop]_vars
    /\ WF_vars(StopStep)
    /\ \A l \in Loops : WF_vars(LoopTickDone(l)) /\ SF_vars(LoopExit(l))

\* close(ch) of Go: a channel that is already closed makes the goroutine
\* panic, and a panic nobody recovers ends the process
closeChannel(ch) ==
    IF ch = "open" THEN [ch |-> "closed", panics |-> FALSE]
                   ELSE [ch |-> ch, panics |-> TRUE]

\* Stop, line 114, called once more on the agent, after the first call has
\* returned or while it waits: a.stopCh is the channel made in New (line 76)
\* and nothing in the agent replaces it
CallStopAgain ==
    /\ stopPC # "none"
    /\ stopAgain = "none"
    /\ LET closed == closeChannel(stopCh)
       IN  /\ stopCh' = closed.ch
           /\ stopAgain' = IF closed.panics THEN "panicked" ELSE "waiting"
    /\ UNCHANGED <<ctxDone, loopPC, lastTick, stopPC, graceLeft>>
    /\ UNCHANGED <<faultsLeft, mainVars, statusVars, idVars, besidesAgain>>

\* the steps of the agent and of the first Stop, which the process takes
\* until a panic ends it
AliveStep == stopAgain # "panicked" /\ NextStop

NextStopTwice ==
    \/ AliveStep
    \/ CallStopAgain

SpecStopTwice == InitStop /\ [][NextStopTwice]_vars

(***************************************************************************)
(* The states a backend reports.  The system holds the security            *)
(* associations; the backend computes a state from what it finds when it   *)
(* is asked.                                                               *)
(***************************************************************************)
\* LinuxManager.GetTunnelStatus, part_005 lines 356-376, and its CLI
\* fallback, lines 388-397: Established when list-sas names the connection,
\* Down otherwise
LinuxGetTunnelStatus(up) == IF up THEN StateEstablished ELSE StateDown

\* WindowsManager.GetTunnelStatus, windows.go lines 238-247 and 270-275
WindowsGetTunnelStatus(enabled, up) ==
    IF up THEN StateEstablished
    ELSE IF enabled THEN StateConnecting
    ELSE StateDown

\* WindowsManager.ListTunnels, windows.go lines 296-311 and 347-353
WindowsListState(enabled, up) ==
    IF up THEN StateEstablished
    ELSE IF enabled THEN StateConnecting
    ELSE StateDown

GetTunnelStatus(name) ==
    IF platform = "linux"
    THEN LinuxGetTunnelStatus(saUp[name])
    ELSE WindowsGetTunnelStatus(ruleOn[name], saUp[name])

ListedState(name) ==
    IF platform = "linux"
    THEN LinuxGetTunnelStatus(saUp[name])
    ELSE WindowsListState(ruleOn[name], saUp[name])

\* StartTunnel: the Linux backend initiates the child SA (part_005 lines
\* 251-271), the Windows backend enables the rule (windows.go lines 193-207)
BackendStartTunnel(name) ==
    /\ \/ /\ platform = "linux"
          /\ saUp' = [saUp EXCEPT ![name] = TRUE]
          /\ UNCHANGED <<ruleOn, faultsLeft>>
       \/ /\ platform = "windows"
          /\ ruleOn' = [ruleOn EXCEPT ![name] = TRUE]
          /\ UNCHANGED <<saUp, faultsLeft>>
       \/ /\ faultsLeft > 0
          /\ faultsLeft' = Spend(TRUE)
          /\ UNCHANGED <<saUp, ruleOn>>
    /\ UNCHANGED <<platform, lastReport, prevReport>>
    /\ UNCHANGED <<mainVars, lifeVars, idVars, extraVars>>

\* StopTunnel: the Linux backend terminates the child SA (part_005 lines
\* 284-301), the Windows backend disables the rule (windows.go lines 210-222)
BackendStopTunnel(name) ==
    /\ \/ /\ platform = "linux"
          /\ saUp' = [saUp EXCEPT ![name] = FALSE]
          /\ UNCHANGED <<ruleOn, faultsLeft>>
       \/ /\ platform = "windows"
          /\ ruleOn' = [ruleOn EXCEPT ![name] = FALSE]
          /\ UNCHANGED <<saUp, faultsLeft>>
       \/ /\ faultsLeft > 0
          /\ faultsLeft' = Spend(TRUE)
          /\ UNCHANGED <<saUp, ruleOn>>
    /\ UNCHANGED <<platform, lastReport, prevReport>>
    /\ UNCHANGED <<mainVars, lifeVars, idVars, extraVars>>

\* the system negotiates a security association: on Windows for an enabled
\* rule, on Linux also when the peer initiates or traffic hits the trap policy
SaAppears(name) ==
    /\ ~saUp[name]
    /\ platform = "windows" => ruleOn[name]
    /\ saUp' = [saUp EXCEPT ![name] = TRUE]
    /\ UNCHANGED <<platform, ruleOn, lastReport, prevReport>>
    /\ UNCHANGED <<faultsLeft, mainVars, lifeVars, idVars, extraVars>>

\* the security association expires or the peer deletes it
SaExpires(name) ==
    /\ saUp[name]
    /\ saUp' = [saUp EXCEPT ![name] = FALSE]
    /\ UNCHANGED <<platform, ruleOn, lastReport, prevReport>>
    /\ UNCHANGED <<faultsLeft, mainVars, lifeVars, idVars, extraVars>>

\* a caller asks GetTunnelStatus: the backend answers a state, or an error
\* (part_005 lines 351-353, windows.go lines 252-268)
ReportStatus(name) ==
    /\ \/ /\ prevReport' = [prevReport EXCEPT ![name] = lastReport[name]]
          /\ lastReport' = [lastReport EXCEPT ![name] = GetTunnelStatus(name)]
          /\ faultsLeft' = faultsLeft
       \/ /\ faultsLeft > 0
          /\ faultsLeft' = Spend(TRUE)
          /\ UNCHANGED <<lastReport, prevReport>>
    /\ UNCHANGED <<platform, saUp, ruleOn>>
    /\ UNCHANGED <<mainVars, lifeVars, idVars, extraVars>>

\* a caller asks ListTunnels (part_005 lines 402-428, windows.go lines
\* 286-364): one state for every tunnel
ReportList ==
    /\ prevReport' = lastReport
    /\ lastReport' = [name \in StatusTunnels |-> ListedState(name)]
    /\ UNCHANGED <<platform, saUp, ruleOn>>
    /\ UNCHANGED <<faultsLeft, mainVars, lifeVars, idVars, extraVars>>

\* NewManager, part_005 lines 9-21: the backend of the platform, two tunnels
\* configured, no security association yet
InitStatus ==
    /\ EngineIdle
    /\ AgentFresh
    /\ faultsLeft = MaxDisturbances
    /\ confd = EmptyMap
    /\ LifeIdle
    /\ IdIdle
    /\ ExtraIdle
    /\ platform \in {"linux", "windows"}
    /\ saUp = [n \in StatusTunnels |-> FALSE]
    /\ ruleOn = [n \in StatusTunnels |-> FALSE]
    /\ lastReport = [n \in StatusTunnels |-> "none"]
    /\ prevReport = [n \in StatusTunnels |-> "none"]

NextStatus ==
    \/ \E name \in StatusTunnels :
          \/ BackendStartTunnel(name)
          \/ BackendStopTunnel(name)
          \/ SaAppears(name)
          \/ SaExpires(name)
          \/ ReportStatus(name)
    \/ ReportList

\* every call returns and the system keeps negotiating
SpecStatus ==
    /\ InitStatus
    /\ [][NextStatus]_vars
    /\ \A name \in StatusTunnels : WF_vars(ReportStatus(name))

(***************************************************************************)
(* The identity of the node over the agent processes started on it.        *)
(***************************************************************************)
\* the values uuid.New() can give
UUIDs == {"uuid-a", "uuid-b"}

\* agent.New, lines 62-67: a.id is peer.id of the configuration, or a
\* generated one when peer.id is not set; nothing is written back
PeerIDs == IF cfgPeerID # "" THEN {cfgPeerID} ELSE UUIDs

\* a process is started on the node: agent.New
ProcessStart ==
    /\ agentID = "none"
    /\ restarts <= MaxRestarts
    /\ restarts' = restarts + 1
    /\ agentID' \in PeerIDs
    /\ UNCHANGED <<cfgPeerID, registeredAs, fetchedAs>>
    /\ UNCHANGED <<faultsLeft, mainVars, lifeVars, statusVars, extraVars>>

\* register, lines 136-137 and 154-170: the registration carries a.id; the
\* request can fail
IdRegister ==
    /\ agentID # "none"
    /\ \/ /\ registeredAs' = registeredAs \cup {agentID}
          /\ faultsLeft' = faultsLeft
       \/ /\ faultsLeft > 0
          /\ faultsLeft' = Spend(TRUE)
          /\ UNCHANGED registeredAs
    /\ UNCHANGED <<cfgPeerID, agentID, fetchedAs, restarts>>
    /\ UNCHANGED <<mainVars, lifeVars, statusVars, extraVars>>

\* syncPolicies, lines 182-183: the fetch asks for the policies of a.id
IdFetch ==
    /\ agentID # "none"
    /\ fetchedAs' = fetchedAs \cup {agentID}
    /\ UNCHANGED <<cfgPeerID, agentID, registeredAs, restarts>>
    /\ UNCHANGED <<faultsLeft, mainVars, lifeVars, statusVars, extraVars>>

\* the process ends; a.id lived in its memory only
ProcessExit ==
    /\ agentID # "none"
    /\ agentID' = "none"
    /\ UNCHANGED <<cfgPeerID, registeredAs, fetchedAs, restarts>>
    /\ UNCHANGED <<faultsLeft, mainVars, lifeVars, statusVars, extraVars>>

\* a node whose configuration sets peer.id or not, before its first agent
\* process
InitIdentity ==
    /\ EngineIdle
    /\ AgentFresh
    /\ faultsLeft = MaxDisturbances
    /\ confd = EmptyMap
    /\ LifeIdle
    /\ StatusIdle
    /\ ExtraIdle
    /\ cfgPeerID \in {"", NodeID}
    /\ agentID = "none"
    /\ registeredAs = {}
    /\ fetchedAs = {}
    /\ restarts = 0

NextIdentity == ProcessStart \/ IdRegister \/ IdFetch \/ ProcessExit

SpecIdentity == InitIdentity /\ [][NextIdentity]_vars

(***************************************************************************)
(* PolicyEngine.Validate: the three validators of NewPolicyEngine run in   *)
(* order on a policy and the first error is returned.                      *)
(***************************************************************************)
\* the most tunnels a policy handed to Validate has
MaxTunnels == 2

\* a character of a secret with the number of bytes of its UTF-8 encoding
Char(c, bytes) == [c |-> c, bytes |-> bytes]

RECURSIVE ByteLen(_)
\* len(s) of a Go string: the number of bytes
ByteLen(str) == IF str = <<>> THEN 0 ELSE Head(str).bytes + ByteLen(Tail(str))

Ascii(n) == [i \in 1..n |-> Char("x", 1)]

\* a string of n two-byte characters, as U+00E9
Wide(n) == [i \in 1..n |-> Char("U+00E9", 2)]

ModeESPTunnel == "esp-tunnel"
ModeESPTransport == "esp-transport"
ModeAHTunnel == "ah-tunnel"
ModeAHTransport == "ah-transport"
ModeESPAHTunnel == "esp-ah-tunnel"

IPsecModes ==
    {ModeESPTunnel, ModeESPTransport, ModeAHTunnel, ModeAHTransport, ModeESPAHTunnel}

AuthPSK == "psk"
AuthCertificate == "certificate"
IKEv1 == "ikev1"
IKEv2 == "ikev2"

\* SecurityValidator.isValidEncryption, lines 239-254
isValidEncryption(alg) == alg \in {"aes128", "aes256", "aes128gcm", "aes256gcm", "3des"}

\* SecurityValidator.isValidIntegrity, lines 256-270
isValidIntegrity(alg) == alg \in {"sha1", "sha256", "sha384", "sha512"}

\* SecurityValidator.isValidDHGroup, lines 272-291
isValidDHGroup(group) ==
    group \in {"modp1024", "modp1536", "modp2048", "modp3072", "modp4096", "modp8192",
               "ecp256", "ecp384", "ecp521"}

\* Validate returned nil
Accepted == [group |-> "none", index |-> -1, name |-> "", rule |-> "ok"]

\* the error of a validator: index and name of the tunnel as the message
\* prints them ("tunnel %d (%s): ..."), index -1 for an error about the policy
Rejected(group, index, name, rule) ==
    [group |-> group, index |-> index, name |-> name, rule |-> rule]

\* the loop `for i, tunnel := range policy.Tunnels` of a validator: the error
\* of the first tunnel the check refuses, with its Go index
FirstRefused(group, tunnels, Check(_)) ==
    LET refused == {i \in DOMAIN tunnels : Check(tunnels[i]) # "ok"}
    IN  IF refused = {}
        THEN Accepted
        ELSE LET i == CHOOSE j \in refused : \A k \in refused : j <= k
             IN  Rejected(group, i - 1, tunnels[i].Name, Check(tunnels[i]))

\* BasicValidator.validateTunnel, lines 176-184: the first selector without
\* a local or a remote subnet
SelectorError(selectors) ==
    LET bad == {i \in DOMAIN selectors :
                   selectors[i].LocalSubnet = "" \/ selectors[i].RemoteSubnet = ""}
    IN  IF bad = {} THEN "ok"
        ELSE LET i == CHOOSE j \in bad : \A k \in bad : j <= k
             IN  IF selectors[i].LocalSubnet = ""
                 THEN "local subnet is required"
                 ELSE "remote subnet is required"

\* BasicValidator.validateTunnel, lines 159-187
validateTunnel(tunnel) ==
    IF tunnel.Name = "" THEN "tunnel name is required"
    ELSE IF tunnel.LocalAddress = "" THEN "local address is required"
    ELSE IF tunnel.RemoteAddress = "" THEN "remote address is required"
    ELSE IF Len(tunnel.TrafficSelectors) = 0 THEN "at least one traffic selector is required"
    ELSE SelectorError(tunnel.TrafficSelectors)

\* BasicValidator.Validate, lines 140-157
BasicValidate(policy) ==
    IF policy.Name = ""
    THEN Rejected("structural", -1, "", "policy name is required")
    ELSE IF Len(policy.Tunnels) = 0
    THEN Rejected("structural", -1, "", "policy must contain at least one tunnel configuration")
    ELSE FirstRefused("structural", policy.Tunnels, validateTunnel)

\* a security check whose lifetime interval is open at both ends
SecurityCheckOpenInterval(tunnel) ==
    IF tunnel.Auth.Type = AuthPSK /\ tunnel.Auth.Secret = <<>>
    THEN "PSK secret is required"
    ELSE IF tunnel.Auth.Type = AuthPSK /\ ByteLen(tunnel.Auth.Secret) < 8
    THEN "PSK secret must be at least 8 characters"
    ELSE IF tunnel.Auth.Type = AuthCertificate /\ tunnel.Auth.CertPath = ""
    THEN "certificate path is required"
    ELSE IF tunnel.Auth.Type = AuthCertificate /\ tunnel.Auth.KeyPath = ""
    THEN "private key path is required"
    ELSE IF ~isValidEncryption(tunnel.Crypto.Encryption) THEN "invalid encryption algorithm"
    ELSE IF ~isValidIntegrity(tunnel.Crypto.Integrity) THEN "invalid integrity algorithm"
    ELSE IF ~isValidDHGroup(tunnel.Crypto.DHGroup) THEN "invalid DH group"
    ELSE IF tunnel.Crypto.Lifetime = 0 THEN "SA lifetime must be specified"
    ELSE IF tunnel.Crypto.Lifetime <= 5 THEN "SA lifetime too short (minimum 5 minutes)"
    ELSE IF tunnel.Crypto.Lifetime >= 24 * 60 THEN "SA lifetime too long (maximum 24 hours)"
    ELSE "ok"

\* SecurityValidator.Validate, lines 194-233, the body of its loop; the
\* lifetime (a time.Duration) is in whole minutes
SecurityCheck(tunnel) ==
    IF tunnel.Auth.Type = AuthPSK /\ tunnel.Auth.Secret = <<>>
    THEN "PSK secret is required"
    ELSE IF tunnel.Auth.Type = AuthPSK /\ ByteLen(tunnel.Auth.Secret) < 8
    THEN "PSK secret must be at least 8 characters"
    ELSE IF tunnel.Auth.Type = AuthCertificate /\ tunnel.Auth.CertPath = ""
    THEN "certificate path is required"
    ELSE IF tunnel.Auth.Type = AuthCertificate /\ tunnel.Auth.KeyPath = ""
    THEN "private key path is required"
    ELSE IF ~isValidEncryption(tunnel.Crypto.Encryption) THEN "invalid encryption algorithm"
    ELSE IF ~isValidIntegrity(tunnel.Crypto.Integrity) THEN "invalid integrity algorithm"
    ELSE IF ~isValidDHGroup(tunnel.Crypto.DHGroup) THEN "invalid DH group"
    ELSE IF tunnel.Crypto.Lifetime = 0 THEN "SA lifetime must be specified"
    ELSE IF tunnel.Crypto.Lifetime < 5 THEN "SA lifetime too short (minimum 5 minutes)"
    ELSE IF tunnel.Crypto.Lifetime > 24 * 60 THEN "SA lifetime too long (maximum 24 hours)"
    ELSE "ok"

\* SecurityValidator.Validate, lines 192-237
SecurityValidate(policy) == FirstRefused("security", policy.Tunnels, SecurityCheck)

\* a platform check that refuses the AH and ESP+AH modes
PlatformCheckRefusesAH(tunnel) ==
    IF tunnel.Mode \in {ModeAHTunnel, ModeAHTransport, ModeESPAHTunnel}
    THEN "mode not supported"
    ELSE IF /\ tunnel.Crypto.Encryption \in {"aes128gcm", "aes256gcm"}
            /\ tunnel.Crypto.IKEVersion # IKEv2
    THEN "GCM modes require IKEv2"
    ELSE "ok"

\* PlatformCompatibilityValidator.Validate, lines 299-315, the body of its
\* loop: the two tests of the mode (lines 300-307) have empty bodies
PlatformCheck(tunnel) ==
    LET afterModeTests ==
            IF tunnel.Mode = ModeAHTunnel \/ tunnel.Mode = ModeAHTransport THEN "ok"
            ELSE IF tunnel.Mode = ModeESPAHTunnel THEN "ok"
            ELSE "ok"
    IN  IF /\ tunnel.Crypto.Encryption \in {"aes128gcm", "aes256gcm"}
           /\ tunnel.Crypto.IKEVersion # IKEv2
        THEN "GCM modes require IKEv2"
        ELSE afterModeTests

\* PlatformCompatibilityValidator.Validate, lines 296-319
PlatformValidate(policy) == FirstRefused("platform", policy.Tunnels, PlatformCheck)

\* a Validate that runs the security validator before the structural one
ValidateSecurityFirst(policy) ==
    IF SecurityValidate(policy) # Accepted THEN SecurityValidate(policy)
    ELSE IF BasicValidate(policy) # Accepted THEN BasicValidate(policy)
    ELSE PlatformValidate(policy)

\* PolicyEngine.Validate, lines 69-76, over the validators of NewPolicyEngine,
\* lines 58-66
Validate(policy) ==
    IF BasicValidate(policy) # Accepted THEN BasicValidate(policy)
    ELSE IF SecurityValidate(policy) # Accepted THEN SecurityValidate(policy)
    ELSE PlatformValidate(policy)

\* a tunnel configuration every validator accepts
GoodTunnel ==
    [Name |-> "t1",
     Mode |-> ModeESPTunnel,
     LocalAddress |-> "10.0.0.1",
     RemoteAddress |-> "10.0.0.2",
     TrafficSelectors |-> <<[LocalSubnet |-> "10.0.1.0/24", RemoteSubnet |-> "10.0.2.0/24"]>>,
     Auth |-> [Type |-> AuthPSK, Secret |-> Ascii(8), CertPath |-> "cert.pem",
               KeyPath |-> "key.pem"],
     Crypto |-> [Encryption |-> "aes256", Integrity |-> "sha256", DHGroup |-> "modp2048",
                 IKEVersion |-> IKEv2, Lifetime |-> 60]]

SelectorLists ==
    {<<>>,
     <<[LocalSubnet |-> "", RemoteSubnet |-> "10.0.2.0/24"]>>,
     <<[LocalSubnet |-> "10.0.1.0/24", RemoteSubnet |-> ""]>>,
     <<[LocalSubnet |-> "10.0.1.0/24", RemoteSubnet |-> "10.0.2.0/24"],
       [LocalSubnet |-> "", RemoteSubnet |-> ""]>>}

\* the empty secret, "short", seven and nine one-byte characters, and four
\* and seven two-byte characters
Secrets == {<<>>, Ascii(5), Ascii(7), Ascii(9), Wide(4), Wide(7)}

\* SA lifetimes in minutes, a negative duration among them
Lifetimes == {-1, 0, 4, 5, 24 * 60, 24 * 60 + 1}

\* the tunnels that differ from the given one in one field
Vary(t) ==
    {t}
    \cup {[t EXCEPT !.Name = v] : v \in {"", "t2"}}
    \cup {[t EXCEPT !.Mode = v] : v \in IPsecModes}
    \cup {[t EXCEPT !.LocalAddress = ""], [t EXCEPT !.RemoteAddress = ""]}
    \cup {[t EXCEPT !.TrafficSelectors = v] : v \in SelectorLists}
    \cup {[t EXCEPT !.Auth.Type = v] : v \in {AuthCertificate, "eap"}}
    \cup {[t EXCEPT !.Auth.Secret = v] : v \in Secrets}
    \cup {[t EXCEPT !.Auth.CertPath = ""], [t EXCEPT !.Auth.KeyPath = ""]}
    \cup {[t EXCEPT !.Crypto.Encryption = v] : v \in {"aes256gcm", "des"}}
    \cup {[t EXCEPT !.Crypto.Integrity = "md5"], [t EXCEPT !.Crypto.DHGroup = "modp768"]}
    \cup {[t EXCEPT !.Crypto.IKEVersion = v] : v \in {IKEv1, ""}}
    \cup {[t EXCEPT !.Crypto.Lifetime = v] : v \in Lifetimes}

\* tunnels one field away from the good one, and two fields away
NearTunnels == Vary(GoodTunnel)

FarTunnels == UNION {Vary(t) : t \in NearTunnels}

\* the policies handed to Validate: any tunnels one field away from the good
\* one, or a single tunnel two fields away, under a name or without one
ValidateInputs ==
    {[Name |-> name, Tunnels |-> tunnels] :
        name \in {"", "office"},
        tunnels \in (UNION {[1..n -> NearTunnels] : n \in 0..MaxTunnels})
                    \cup {<<t>> : t \in FarTunnels}}

InitValidate ==
    /\ EngineIdle
    /\ AgentFresh
    /\ faultsLeft = MaxDisturbances
    /\ confd = EmptyMap
    /\ LifeIdle
    /\ StatusIdle
    /\ IdIdle
    /\ SubmitIdle
    /\ GenIdle
    /\ TickIdle
    /\ MuIdle
    /\ AgainIdle
    /\ valPolicy \in ValidateInputs
    /\ valResult = Pending

\* Validate is called on the policy
CallValidate ==
    /\ valResult = Pending
    /\ valResult' = Validate(valPolicy)
    /\ UNCHANGED valPolicy
    /\ UNCHANGED <<faultsLeft, mainVars, lifeVars, statusVars, idVars, besidesVal>>

NextValidate == CallValidate

SpecValidate == InitValidate /\ [][NextValidate]_vars

(***************************************************************************)
(* The policy handlers of the server (handleCreatePolicy,                  *)
(* handleUpdatePolicy, handleDeletePolicy) over Storage.SavePolicy and     *)
(* Storage.DeletePolicy.                                                   *)
(***************************************************************************)
StatusCreated == 201
StatusOK == 200
StatusNoContent == 204
StatusBadRequest == 400
StatusNotFound == 404
StatusInternalServerError == 500

\* uuid.New() of SavePolicy, line 96: an id no row has
NewPolicyIDs == {"uuid-1", "uuid-2", "uuid-3"} \ DOMAIN policiesTable

\* the ids a client puts into a body or a URL; "" is no id
ClientIDs == {"", "p1", "p2"}

\* tunnel lists of submitted policies: none, a valid one, one with a secret
\* of four two-byte characters, one with a short secret, a second tunnel
\* without a name and with an unsupported cipher, GCM with IKEv1
SubmitTunnels ==
    {<<>>,
     <<GoodTunnel>>,
     <<[GoodTunnel EXCEPT !.Auth.Secret = Wide(4)]>>,
     <<[GoodTunnel EXCEPT !.Auth.Secret = Ascii(5)]>>,
     <<GoodTunnel, [GoodTunnel EXCEPT !.Name = "", !.Crypto.Encryption = "des"]>>,
     <<[GoodTunnel EXCEPT !.Crypto.Encryption = "aes256gcm", !.Crypto.IKEVersion = IKEv1]>>}

\* the policies c.Bind can produce from a request body
Submissions ==
    {PolicyRow(id, name, tunnels) :
        id \in ClientIDs, name \in {"", "office", "branch"}, tunnels \in SubmitTunnels}

\* Storage.SavePolicy, lines 94-134: the id is generated when the policy has
\* none; the statement inserts the row or replaces the row of that id and
\* fails when another row has the name (name TEXT NOT NULL UNIQUE) or the
\* database fails; the result is the table, or "error"
SavePolicy(table, pol, newID, dbFails) ==
    LET id == IF pol.ID = "" THEN newID ELSE pol.ID
        taken == \E other \in DOMAIN table \ {id} : table[other].Name = pol.Name
    IN  IF dbFails \/ taken
        THEN [err |-> TRUE, table |-> table]
        ELSE [err |-> FALSE,
              table |-> [n \in DOMAIN table \cup {id} |->
                            IF n = id THEN PolicyRow(id, pol.Name, pol.Tunnels)
                            ELSE table[n]]]

\* a handler that saves what it was sent without Validate
SaveUnchecked(op, pol, newID, dbFails, success) ==
    LET saved == SavePolicy(policiesTable, pol, newID, dbFails)
    IN  /\ policiesTable' = saved.table
        /\ httpResponse' =
              [op |-> op,
               status |-> IF saved.err THEN StatusInternalServerError ELSE success,
               policy |-> pol]

\* the part handleCreatePolicy and handleUpdatePolicy share, lines 556-577
\* and 605-626: Validate, SavePolicy, the response
ValidateAndSave(op, pol, newID, dbFails, success) ==
    IF Validate(pol) # Accepted
    THEN /\ httpResponse' = [op |-> op, status |-> StatusBadRequest, policy |-> pol]
         /\ UNCHANGED policiesTable
    ELSE LET saved == SavePolicy(policiesTable, pol, newID, dbFails)
         IN  /\ policiesTable' = saved.table
             /\ httpResponse' =
                   [op |-> op,
                    status |-> IF saved.err THEN StatusInternalServerError ELSE success,
                    policy |-> pol]

\* a request is handled; a failure of the database is a disturbance
Handled(dbFails) ==
    /\ requestsLeft > 0
    /\ requestsLeft' = requestsLeft - 1
    /\ dbFails => faultsLeft > 0
    /\ faultsLeft' = Spend(dbFails)
    /\ UNCHANGED <<mainVars, lifeVars, statusVars, idVars, besidesSubmit>>

\* what uuid.New() of SavePolicy can return for the policy: it is called
\* only for a policy without an id
GeneratedFor(pol) == IF pol.ID = "" THEN NewPolicyIDs ELSE {""}

\* whether the database can fail for the policy: SavePolicy is reached only
\* with a policy Validate accepted
SaveFailures(pol) == IF Validate(pol) = Accepted THEN BOOLEAN ELSE {FALSE}

\* handleCreatePolicy, lines 547-578, for a body that does not bind
HandleCreateMalformed ==
    /\ Handled(FALSE)
    /\ httpResponse' = [op |-> "create", status |-> StatusBadRequest,
                        policy |-> PolicyRow("", "", <<>>)]
    /\ UNCHANGED policiesTable

\* handleCreatePolicy, lines 547-578, for a body that binds to pol
HandleCreatePolicy ==
    \E pol \in Submissions :
        \E newID \in GeneratedFor(pol), dbFails \in SaveFailures(pol) :
            /\ Handled(dbFails)
            /\ ValidateAndSave("create", pol, newID, dbFails, StatusCreated)

\* handleUpdatePolicy, lines 593-627: the id of the URL replaces the id of the
\* body
HandleUpdatePolicy ==
    \E id \in ClientIDs \ {""}, body \in {b \in Submissions : b.ID = ""} :
        LET pol == [body EXCEPT !.ID = id]
        IN  \E newID \in GeneratedFor(pol), dbFails \in SaveFailures(pol) :
                /\ Handled(dbFails)
                /\ ValidateAndSave("update", pol, newID, dbFails, StatusOK)

\* handleDeletePolicy, lines 629-645, over Storage.DeletePolicy, lines
\* 224-240: an error of the statement and a missing row both answer 404
HandleDeleteStoredPolicy ==
    \E id \in (ClientIDs \ {""}) \cup DOMAIN policiesTable, dbFails \in BOOLEAN :
        /\ Handled(dbFails)
        /\ IF dbFails \/ id \notin DOMAIN policiesTable
           THEN /\ httpResponse' = [op |-> "delete", status |-> StatusNotFound,
                                    policy |-> PolicyRow(id, "", <<>>)]
                /\ UNCHANGED policiesTable
           ELSE /\ httpResponse' = [op |-> "delete", status |-> StatusNoContent,
                                    policy |-> PolicyRow(id, "", <<>>)]
                /\ policiesTable' = [n \in DOMAIN policiesTable \ {id} |-> policiesTable[n]]

InitSubmit ==
    /\ EngineIdle
    /\ AgentFresh
    /\ faultsLeft = MaxDisturbances
    /\ confd = EmptyMap
    /\ LifeIdle
    /\ StatusIdle
    /\ IdIdle
    /\ ValIdle
    /\ GenIdle
    /\ TickIdle
    /\ MuIdle
    /\ AgainIdle
    /\ policiesTable = [id \in {} |-> PolicyRow("", "", <<>>)]
    /\ httpResponse = NoResponse
    /\ requestsLeft = MaxRequests

NextSubmit ==
    \/ HandleCreateMalformed
    \/ HandleCreatePolicy
    \/ HandleUpdatePolicy
    \/ HandleDeleteStoredPolicy

SpecSubmit == InitSubmit /\ [][NextSubmit]_vars

(***************************************************************************)
(* The proposals of the swanctl configuration (buildESPProposal,           *)
(* buildAHProposal, generateSwanctlConfig).                                *)
(***************************************************************************)
\* an ESP proposal with the integrity algorithm first
buildESPProposalIntegrityFirst(crypto) ==
    crypto.Integrity \o "-" \o crypto.Encryption \o "-" \o crypto.DHGroup

\* buildESPProposal, lines 488-490: fmt.Sprintf("%s-%s-%s", ...)
buildESPProposal(crypto) ==
    crypto.Encryption \o "-" \o crypto.Integrity \o "-" \o crypto.DHGroup

\* buildAHProposal, lines 492-494: fmt.Sprintf("%s-%s", ...)
buildAHProposal(crypto) == crypto.Integrity \o "-" \o crypto.DHGroup

\* the configurations generateSwanctlConfig is given: every mode with every
\* suite of the algorithms the types name
GenConfigs ==
    {[Mode |-> mode,
      Crypto |-> [Encryption |-> enc, Integrity |-> int, DHGroup |-> dh]] :
        mode \in {ModeESPTunnel, ModeESPTransport, ModeAHTunnel, ModeAHTransport,
                  ModeESPAHTunnel},
        enc \in {"aes128", "aes256", "aes128gcm", "aes256gcm", "3des"},
        int \in {"sha1", "sha256", "sha384", "sha512"},
        dh \in {"modp1024", "modp2048", "ecp256"}}

\* the template, line 166: the mode line of the child section
renderChildMode(mode) ==
    IF mode = "esp-tunnel" \/ mode = "esp-ah-tunnel" THEN "tunnel" ELSE "transport"

\* the template, line 171: the ah_proposals line of the child section, ""
\* when the line is left out
renderAhProposals(useAH, proposal) == IF useAH THEN proposal ELSE ""

\* generateSwanctlConfig, lines 200-220: the proposals and UseAH of the
\* template data, and what the template makes of them in the child section; the configuration of a tunnel is generated again on every
\* create and update
GenerateSwanctlConfig ==
    /\ genPrev = NoData
    /\ genPrev' = genData
    /\ genData' = [ESPProposal |-> buildESPProposal(genConfig.Crypto),
                   AHProposal |-> buildAHProposal(genConfig.Crypto),
                   UseAH |-> genConfig.Mode \in {ModeAHTunnel, ModeAHTransport, ModeESPAHTunnel},
                   childMode |-> renderChildMode(genConfig.Mode),
                   ahProposals |->
                       renderAhProposals(
                           genConfig.Mode \in {ModeAHTunnel, ModeAHTransport, ModeESPAHTunnel},
                           buildAHProposal(genConfig.Crypto)),
                   generated |-> TRUE]
    /\ UNCHANGED genConfig
    /\ UNCHANGED <<faultsLeft, mainVars, lifeVars, statusVars, idVars, besidesGen>>

InitGenerate ==
    /\ EngineIdle
    /\ AgentFresh
    /\ faultsLeft = MaxDisturbances
    /\ confd = EmptyMap
    /\ LifeIdle
    /\ StatusIdle
    /\ IdIdle
    /\ ValIdle
    /\ SubmitIdle
    /\ TickIdle
    /\ MuIdle
    /\ AgainIdle
    /\ genConfig \in GenConfigs
    /\ genData = NoData
    /\ genPrev = NoData

NextGenerate == GenerateSwanctlConfig

SpecGenerate == InitGenerate /\ [][NextGenerate]_vars

(***************************************************************************)
(* The watchdog over many ticks (watchdogLoop, watchdogCheck) while the    *)
(* last-applied mapping stays as it is.                                    *)
(***************************************************************************)
\* what watchdogCheck can see of the tunnels it asks about: for each an
\* error of GetTunnelStatus or a value of the State field
Observations(names) == [names -> StatusValues \cup {"query-failed"}]

\* watchdogLoop, lines 349-351, and watchdogCheck, lines 360-389, as one
\* pass: the tunnels with autostart are asked for their status and
\* StartTunnel is called for those Down or in Error; the agent keeps no
\* count of the calls, tickStarts counts them for a tunnel for as long as it
\* was not seen in another state than Down
WatchdogCheckOnTick ==
    /\ ticksLeft > 0
    /\ ticksLeft' = ticksLeft - 1
    /\ \E seen \in Observations({n \in DOMAIN tickTunnels : Watched(tickTunnels[n])}) :
          /\ tickSeen' = seen
          /\ tickStarts' =
                [n \in DOMAIN tickTunnels |->
                    IF n \notin DOMAIN seen \/ seen[n] = "query-failed" THEN tickStarts[n]
                    ELSE IF seen[n] = StateDown THEN tickStarts[n] + 1
                    ELSE 0]
    /\ UNCHANGED tickTunnels
    /\ UNCHANGED <<faultsLeft, mainVars, lifeVars, statusVars, idVars, besidesTick>>

\* the last-applied mappings the watchdog ticks over
TickInputs ==
    {[n \in names |-> TunnelConfig(n, "aes128", auto[n])] :
        names \in {{"vpn1"}, {"vpn1", "vpn2"}},
        auto \in [{"vpn1", "vpn2"} -> BOOLEAN]}

InitTicks ==
    /\ EngineIdle
    /\ AgentFresh
    /\ faultsLeft = MaxDisturbances
    /\ confd = EmptyMap
    /\ LifeIdle
    /\ StatusIdle
    /\ IdIdle
    /\ ValIdle
    /\ SubmitIdle
    /\ GenIdle
    /\ MuIdle
    /\ AgainIdle
    /\ tickTunnels \in TickInputs
    /\ tickSeen = NothingObserved
    /\ tickStarts = [n \in DOMAIN tickTunnels |-> 0]
    /\ ticksLeft = MaxTicks

NextTicks == WatchdogCheckOnTick

SpecTicks == InitTicks /\ [][NextTicks]_vars

(***************************************************************************)
(* The three loops around a.mu (applyPolicies and syncPolicies lines       *)
(* 210-212 and 272-274, checkHealth lines 320-326, watchdogCheck lines     *)
(* 361-367), step by step.                                                 *)
(***************************************************************************)
\* the loops that read a.currentTunnels
Readers == {"health", "watchdog"}

\* the desired mappings of the reconciles
LockMappings ==
    {[n \in {"vpn1", "vpn2"} |-> TunnelConfig(n, "aes128", TRUE)],
     [n \in {"vpn1", "vpn2"} |-> TunnelConfig(n, "aes256", TRUE)],
     [n \in {"vpn1"} |-> TunnelConfig(n, "aes128", TRUE)]}

\* a reader that takes no lock
RLockSkipped(l) == mu

\* a.mu.RLock() returned
RLock(l) == [mu EXCEPT !.readers = @ \cup {l}]

\* a reader that keeps the lock after the copy
RUnlockMissing(l) == mu

\* a.mu.RUnlock()
RUnlock(l) == [mu EXCEPT !.readers = @ \ {l}]

\* the loop is inside a backend call or a request to the policy source
InCall(l) == muPC[l] \in {"fetch", "list", "apply", "calls"}

\* the loop's goroutine runs: it is not the one stuck in a call
Runs(l) == muHung # l

MuStep(l) ==
    /\ Runs(l)
    /\ UNCHANGED <<faultsLeft, mainVars, lifeVars, statusVars, idVars, besidesMu>>

\* case <-ticker.C of a loop
MuTick(l) ==
    /\ MuStep(l)
    /\ muPC[l] = "idle"
    /\ muTicks[l] > 0
    /\ muTicks' = [muTicks EXCEPT ![l] = @ - 1]
    /\ muPC' = [muPC EXCEPT ![l] = IF l = "sync" THEN "fetch" ELSE "rlock"]
    /\ UNCHANGED <<mu, muTunnels, muRecorded, muDesired, muTodo, muSnapshot, muHung>>

\* checkHealth line 320, watchdogCheck line 361: RLock returns when no
\* writer holds the lock and none waits for it
MuRLock(l) ==
    /\ MuStep(l)
    /\ l \in Readers
    /\ muPC[l] = "rlock"
    /\ mu.writer = "none"
    /\ muPC["sync"] \notin {"lockT", "lockP"}
    /\ mu' = RLock(l)
    /\ muPC' = [muPC EXCEPT ![l] = "copy"]
    /\ muTodo' = [muTodo EXCEPT ![l] = DOMAIN muTunnels]
    /\ muSnapshot' = [muSnapshot EXCEPT ![l] = EmptyMap]
    /\ UNCHANGED <<muTunnels, muRecorded, muDesired, muTicks, muHung>>

\* lines 322-324 and 363-365: one iteration of the copy
MuCopy(l) ==
    /\ MuStep(l)
    /\ l \in Readers
    /\ muPC[l] = "copy"
    /\ \E k \in muTodo[l] :
          /\ muTodo' = [muTodo EXCEPT ![l] = @ \ {k}]
          /\ muSnapshot' =
                [muSnapshot EXCEPT ![l] =
                    IF k \in DOMAIN muTunnels THEN MapSet(@, k, muTunnels[k]) ELSE @]
    /\ UNCHANGED <<mu, muPC, muTunnels, muRecorded, muDesired, muTicks, muHung>>

\* lines 325 and 366: RUnlock; the loop over the copy begins, or the pass is
\* over when the copy is empty
MuRUnlock(l) ==
    /\ MuStep(l)
    /\ l \in Readers
    /\ muPC[l] = "copy"
    /\ muTodo[l] = {}
    /\ mu' = RUnlock(l)
    /\ muTodo' = [muTodo EXCEPT ![l] = DOMAIN muSnapshot[l]]
    /\ muPC' = [muPC EXCEPT ![l] = IF muSnapshot[l] = EmptyMap THEN "idle" ELSE "calls"]
    /\ UNCHANGED <<muTunnels, muRecorded, muDesired, muSnapshot, muTicks, muHung>>

\* lines 328-338 and 369-388: GetTunnelStatus (and StartTunnel) for one
\* name of the copy returns
MuReaderCall(l) ==
    /\ MuStep(l)
    /\ l \in Readers
    /\ muPC[l] = "calls"
    /\ \E k \in muTodo[l] :
          /\ muTodo' = [muTodo EXCEPT ![l] = @ \ {k}]
          /\ muPC' = [muPC EXCEPT ![l] = IF muTodo[l] = {k} THEN "idle" ELSE "calls"]
    /\ UNCHANGED <<mu, muTunnels, muRecorded, muDesired, muSnapshot, muTicks, muHung>>

\* syncPolicies, lines 173-207: the request to the policy server returns,
\* with policies or with an error
MuFetch(l) ==
    /\ l = "sync"
    /\ MuStep(l)
    /\ muPC["sync"] = "fetch"
    /\ \/ /\ muPC' = [muPC EXCEPT !["sync"] = "idle"]
          /\ UNCHANGED muDesired
       \/ /\ muDesired' \in LockMappings
          /\ muPC' = [muPC EXCEPT !["sync"] = "list"]
    /\ UNCHANGED <<mu, muTunnels, muRecorded, muTodo, muSnapshot, muTicks, muHung>>

\* applyPolicies, lines 231-240: ListTunnels returns
MuList(l) ==
    /\ l = "sync"
    /\ MuStep(l)
    /\ muPC["sync"] = "list"
    /\ muTodo' = [muTodo EXCEPT !["sync"] = DOMAIN muDesired]
    /\ muPC' = [muPC EXCEPT !["sync"] = "apply"]
    /\ UNCHANGED <<mu, muTunnels, muRecorded, muDesired, muSnapshot, muTicks, muHung>>

\* lines 242-270: a CreateTunnel, UpdateTunnel or DeleteTunnel returns; after
\* the last one the loop waits for a.mu
MuApplyCall(l) ==
    /\ l = "sync"
    /\ MuStep(l)
    /\ muPC["sync"] = "apply"
    /\ \E k \in muTodo["sync"] :
          /\ muTodo' = [muTodo EXCEPT !["sync"] = @ \ {k}]
          /\ muPC' = [muPC EXCEPT !["sync"] = IF muTodo["sync"] = {k} THEN "lockT" ELSE "apply"]
    /\ UNCHANGED <<mu, muTunnels, muRecorded, muDesired, muSnapshot, muTicks, muHung>>

\* lines 272 and 210: Lock returns when nobody holds the lock
MuLock(l) ==
    /\ l = "sync"
    /\ MuStep(l)
    /\ muPC["sync"] \in {"lockT", "lockP"}
    /\ mu = Unlocked
    /\ mu' = [mu EXCEPT !.writer = "sync"]
    /\ muPC' = [muPC EXCEPT !["sync"] = IF muPC["sync"] = "lockT" THEN "holdT" ELSE "holdP"]
    /\ UNCHANGED <<muTunnels, muRecorded, muDesired, muTodo, muSnapshot, muTicks, muHung>>

\* lines 273-274: a.currentTunnels = desiredTunnels, Unlock
MuRecordTunnels(l) ==
    /\ l = "sync"
    /\ MuStep(l)
    /\ muPC["sync"] = "holdT"
    /\ muTunnels' = muDesired
    /\ muRecorded' = muRecorded \cup {muDesired}
    /\ muDesired' = EmptyMap
    /\ mu' = [mu EXCEPT !.writer = "none"]
    /\ muPC' = [muPC EXCEPT !["sync"] = "lockP"]
    /\ UNCHANGED <<muTodo, muSnapshot, muTicks, muHung>>

\* lines 211-212: a.currentPolicies = policies, Unlock
MuRecordPolicies(l) ==
    /\ l = "sync"
    /\ MuStep(l)
    /\ muPC["sync"] = "holdP"
    /\ mu' = [mu EXCEPT !.writer = "none"]
    /\ muPC' = [muPC EXCEPT !["sync"] = "idle"]
    /\ UNCHANGED <<muTunnels, muRecorded, muDesired, muTodo, muSnapshot, muTicks, muHung>>

\* the backend call or the request a loop is in never returns
MuHang(l) ==
    /\ muHung = "none"
    /\ InCall(l)
    /\ muHung' = l
    /\ UNCHANGED <<mu, muPC, muTunnels, muRecorded, muDesired, muTodo, muSnapshot, muTicks>>
    /\ UNCHANGED <<faultsLeft, mainVars, lifeVars, statusVars, idVars, besidesMu>>

InitLock ==
    /\ EngineIdle
    /\ AgentFresh
    /\ faultsLeft = MaxDisturbances
    /\ confd = EmptyMap
    /\ LifeIdle
    /\ StatusIdle
    /\ IdIdle
    /\ ValIdle
    /\ SubmitIdle
    /\ GenIdle
    /\ TickIdle
    /\ AgainIdle
    /\ mu = Unlocked
    /\ muPC = [l \in Loops |-> "idle"]
    /\ muTunnels = EmptyMap
    /\ muRecorded = {EmptyMap}
    /\ muDesired = EmptyMap
    /\ muTodo = [l \in Loops |-> {}]
    /\ muSnapshot = [l \in Loops |-> EmptyMap]
    /\ muTicks = [l \in Loops |-> MaxLockTicks]
    /\ muHung = "none"

\* the steps of a loop's goroutine
MuLoopStep(l) ==
    \/ MuTick(l)
    \/ MuRLock(l)
    \/ MuCopy(l)
    \/ MuRUnlock(l)
    \/ MuReaderCall(l)
    \/ MuFetch(l)
    \/ MuList(l)
    \/ MuApplyCall(l)
    \/ MuLock(l)
    \/ MuRecordTunnels(l)
    \/ MuRecordPolicies(l)

NextLock == \E l \in Loops : MuLoopStep(l) \/ MuHang(l)

\* every goroutine that is not stuck in a call is scheduled again and again;
\* a.mu hands the lock to a waiting goroutine once it is free
SpecLock == InitLock /\ [][NextLock]_vars /\ \A l \in Loops : WF_vars(MuLoopStep(l))

(***************************************************************************)
(* Properties of applyPolicies.                                            *)
(***************************************************************************)
\* number of calls op(name) in a bag of calls, failed or not
CallCount(b, op, name) ==
    CopiesIn(Call(op, name, FALSE), b) + CopiesIn(Call(op, name, TRUE), b)

\* an applyPolicies has returned and nothing was begun since
Reconciled == syncPC = "idle" /\ lastSync = "applied"

\* b holds exactly one op call for each name of the set and none for the others
ExactlyOneEach(b, op, names) ==
    \A n \in TunnelNames : CallCount(b, op, n) = (IF n \in names THEN 1 ELSE 0)

\* C2: when ListTunnels succeeded with the names C, a finished reconcile of
\* the desired mapping D has issued exactly one Create for each name of D \ C,
\* one Update for each name of D and C, one Delete for each name of C \ D, and
\* no other call
C2_ReconcileIssuesTheDiff ==
    (Reconciled /\ ~listErr) =>
        LET D == DOMAIN desiredTunnels
            C == currentNames
        IN  /\ ExactlyOneEach(calls, "create", D \ C)
            /\ ExactlyOneEach(calls, "update", D \cap C)
            /\ ExactlyOneEach(calls, "delete", C \ D)
            /\ \A c \in BagToSet(calls) :
                  c.op \in {"create", "update", "delete"} /\ c.name \in TunnelNames

\* the example of the claim: desired {vpn1, vpn2}, current {vpn2, vpn3}
C2_Witness ==
    /\ Reconciled /\ ~listErr
    /\ DOMAIN desiredTunnels = {"vpn1", "vpn2"}
    /\ currentNames = {"vpn2", "vpn3"}
    /\ CallCount(calls, "create", "vpn1") = 1
    /\ CallCount(calls, "update", "vpn2") = 1
    /\ CallCount(calls, "delete", "vpn3") = 1

\* names a create or update call, resp. a delete call, was issued for
Applied(b) == {c.name : c \in {x \in BagToSet(b) : x.op \in {"create", "update"}}}
Deleted(b) == {c.name : c \in {x \in BagToSet(b) : x.op = "delete"}}

\* C7: a failed Create, Update or Delete takes no other tunnel out of the
\* reconcile: at every point of the two loops each tunnel of the diff has had
\* its call or is still to come, whatever calls failed, and the reconcile
\* finishes (records and returns nil) with every call of the diff issued
C7_FailureDoesNotStopOthers ==
    /\ syncPC = "apply" =>
          /\ Applied(calls) \cup todoApply = DOMAIN desiredTunnels
          /\ Deleted(calls) \cup todoDelete = currentNames \ DOMAIN desiredTunnels
    /\ Reconciled =>
          /\ Applied(calls) = DOMAIN desiredTunnels
          /\ Deleted(calls) = currentNames \ DOMAIN desiredTunnels
          /\ currentPolicies = fetched

\* Create(vpn1) failed, Update(vpn2) and Delete(vpn3) were issued and succeeded
C7_Witness ==
    /\ Reconciled
    /\ CopiesIn(Call("create", "vpn1", TRUE), calls) = 1
    /\ CopiesIn(Call("update", "vpn2", FALSE), calls) = 1
    /\ CopiesIn(Call("delete", "vpn3", FALSE), calls) = 1
    /\ "vpn3" \notin DOMAIN confd

\* the calls of a bag without their results
Issued(b) == {<<c.op, c.name>> : c \in BagToSet(b)}

\* two reconciles of the same policies have returned, no call failed and
\* nobody else touched the directory
ReconciledTwice == Reconciled /\ runs >= 2 /\ faultsLeft = MaxDisturbances

\* C9 as claimed: the second of two reconciles in a row issues the same calls
\* as the first, and the names listed after it are those listed after the
\* first
C9_SameCallsBothTimes ==
    ReconciledTwice =>
        /\ Issued(calls) = Issued(prevCalls)
        /\ DOMAIN confd = prevListed

\* C9 amended: the second of two reconciles in a row issues exactly one
\* Update for every desired tunnel and no Create or Delete, none fails, and
\* the names listed after it are those listed after the first
C9_SecondRunOnlyUpdates ==
    ReconciledTwice =>
        /\ ExactlyOneEach(calls, "update", DOMAIN desiredTunnels)
        /\ ExactlyOneEach(calls, "create", {})
        /\ ExactlyOneEach(calls, "delete", {})
        /\ \A c \in BagToSet(calls) : ~c.err
        /\ DOMAIN confd = prevListed
        /\ DOMAIN confd = DOMAIN desiredTunnels

C9_Witness ==
    /\ ReconciledTwice
    /\ DOMAIN desiredTunnels = {"vpn1", "vpn2"}
    /\ CallCount(prevCalls, "create", "vpn1") = 1
    /\ CallCount(calls, "update", "vpn1") = 1

\* policies of the list whose targets match the node and that define the tunnel
ApplicableDefining(policies, peer, name) ==
    {pol \in Defining(policies, name) : Applicable(pol, peer)}

\* C12 as claimed: whatever list the source returned, every tunnel of the
\* agent's desired mapping, and every tunnel it creates or updates, is
\* defined by a policy of the list whose targets match this node
C12_OnlyTunnelsOfMatchingPolicies ==
    \A name \in (DOMAIN desiredTunnels) \cup Applied(calls) :
        ApplicableDefining(fetched, Node, name) # {}

(***************************************************************************)
(* Properties of the system.                                               *)
(***************************************************************************)
\* names of the tunnels defined by the stored policies that are enabled and
\* apply to the node
DesiredNames ==
    {t.Name : t \in UNION {Range(pol.Tunnels) : pol \in {row \in storage : Applicable(row, Node)}}}

\* names a ListTunnels that does not fail reports
ListedNames == UNION {l.names : l \in ListTunnels(confd, FALSE)}

\* no failure and no outside change is to come any more
Stable == faultsLeft = 0

C11_RegistrationRetried ==
    <>[]Stable => <>[]Registered

(***************************************************************************)
(* Properties of the watchdog and of a failed sync.                        *)
(***************************************************************************)
\* number of StartTunnel calls of the running pass for a name, failed or not
StartCount(name) == CallCount(wdStarts, "start", name)

C10_FetchFailureKeepsLastGood ==
    [][ /\ SyncFetchFail =>
             /\ calls' = EmptyBag
             /\ confd' = confd
             /\ wdStarts' = wdStarts
             /\ currentTunnels' = currentTunnels
             /\ currentPolicies' = currentPolicies
             /\ syncPC' = "idle"
        /\ (wdPC = "idle" /\ wdPC' = "pass") => wdTunnels' = currentTunnels
        /\ healthSeen' # healthSeen => healthSeen' = DOMAIN currentTunnels
      ]_vars

\* after an applied policy the fetch failed, and the watchdog, on a pass over
\* the mapping applied before, has started vpn1
C10_Witness ==
    /\ lastSync = "fetch-failed"
    /\ DOMAIN currentTunnels = {"vpn1", "vpn2"}
    /\ Len(currentPolicies) = 1
    /\ wdPC = "pass"
    /\ wdTunnels = currentTunnels
    /\ StartCount("vpn1") = 1

(***************************************************************************)
(* Properties of the shutdown.                                             *)
(***************************************************************************)
Returned == stopPC \in {"clean", "timed-out"}

\* C13: a Stop that was called always returns, also with a loop blocked
\* forever in a call: it reports a timeout only when the grace period has
\* run out, never waits beyond it, and once all loops have exited no more
\* time passes before it returns cleanly.
C13_StopAlwaysReturns ==
    /\ (stopPC = "waiting") ~> Returned
    /\ [](stopPC = "timed-out" => graceLeft = 0)
    /\ [][stopPC # "clean" /\ stopPC' = "clean" => AllExited]_vars
    /\ [](stopPC = "waiting" => graceLeft \in 0..GracePeriod)
    /\ [][stopPC = "waiting" /\ AllExited => graceLeft' = graceLeft]_vars

\* Stop has returned by its timeout while a loop is blocked in a call
C13_Witness ==
    /\ stopPC = "timed-out"
    /\ \E l \in Loops : loopPC[l] = "stuck"

Launched(l) == loopPC[l] \in {"select", "tick"}

\* C14: closing stopCh once reaches all three loops: every launched loop
\* whose calls return exits after the signal, a loop at its select can take
\* the exit as soon as the signal is there, and a loop that has exited never
\* ticks again.
C14_ShutdownReachesEveryLoop ==
    /\ \A l \in Loops :
          [](loopPC[l] # "stuck") =>
              ((stopCh = "closed" /\ Launched(l)) ~> (loopPC[l] = "exited"))
    /\ [](stopCh = "closed" =>
             \A l \in Loops : loopPC[l] = "select" => ENABLED LoopExit(l))
    /\ [][\A l \in Loops :
             loopPC[l] = "exited" =>
                 loopPC'[l] = "exited" /\ lastTick'[l] = lastTick[l]]_vars

\* Stop was called while the loops were running, all three have exited and
\* Stop returned cleanly
C14_Witness ==
    /\ stopCh = "closed"
    /\ ~ctxDone
    /\ stopPC = "clean"
    /\ \A l \in Loops : loopPC[l] = "exited"
    /\ \E l \in Loops : lastTick[l] = "failed"

SyncBegins ==
    /\ syncPC = "idle"
    /\ syncPC' # "idle" \/ lastSync' # lastSync

\* C16: Start registers first, then makes one sync and no second one, then
\* launches the three loops, which it also does when the registration and
\* the sync failed; before that no loop runs and neither the watchdog nor the
\* health check has made a pass.
C16_StartSequence ==
    /\ [][agentPC = "new" /\ agentPC' # "new" =>
             agentPC' = "initialSync" /\ lastSync' = "none" /\ syncPC' = "idle"]_vars
    /\ [][agentPC = "new" => ~SyncBegins]_vars
    /\ [][agentPC = "initialSync" /\ SyncBegins => lastSync = "none"]_vars
    /\ [][agentPC # "running" /\ agentPC' = "running" =>
             /\ agentPC = "initialSync"
             /\ syncPC = "idle"
             /\ lastSync # "none"
             /\ loopPC' = [l \in Loops |-> "select"]]_vars
    /\ [](agentPC = "initialSync" /\ syncPC = "idle" /\ lastSync # "none" =>
             ENABLED StartLaunch)
    /\ [](agentPC # "running" =>
             /\ loopPC = [l \in Loops |-> "idle"]
             /\ wdPC = "idle"
             /\ wdStarts = EmptyBag
             /\ healthSeen = {})

\* Start has launched the loops although the registration and the initial
\* sync both failed
C16_Witness ==
    /\ agentPC = "running"
    /\ ~Registered
    /\ lastSync = "fetch-failed"
    /\ currentTunnels = EmptyMap
    /\ loopPC = [l \in Loops |-> "select"]

(***************************************************************************)
(* Properties of the health check.                                         *)
(***************************************************************************)
HealthPass == healthSeen' # healthSeen \/ healthErrors' # healthErrors

\* C17: a health-check pass asks the status of exactly the tunnels of
\* a.currentTunnels, the tunnels it logs as being in Error state are among
\* them, and it issues no Create, Update, Delete or Start, writes nothing to
\* the backend and leaves a.currentTunnels and a.currentPolicies as they
\* were, whatever it observed.
C17_HealthCheckOnlyObserves ==
    [][HealthPass =>
          /\ healthSeen' = DOMAIN currentTunnels
          /\ healthErrors' \subseteq healthSeen'
          /\ calls' = calls
          /\ wdStarts' = wdStarts
          /\ confd' = confd
          /\ currentTunnels' = currentTunnels
          /\ currentPolicies' = currentPolicies
          /\ UNCHANGED <<syncPC, todoApply, todoDelete, wdPC, wdTodo>>]_vars

\* a health check has seen a tunnel of a two-tunnel mapping in Error state
\* and no Start was issued
C17_Witness ==
    /\ Cardinality(DOMAIN currentTunnels) = 2
    /\ healthSeen = DOMAIN currentTunnels
    /\ healthErrors # {}
    /\ wdPC = "idle"
    /\ wdStarts = EmptyBag

(***************************************************************************)
(* Properties of the reported states.                                      *)
(***************************************************************************)
\* the transitions of the tunnel lifecycle
ListedEdges ==
    {<<StateDown, StateConnecting>>,
     <<StateConnecting, StateEstablished>>,
     <<StateEstablished, StateRekeying>>,
     <<StateRekeying, StateEstablished>>,
     <<StateError, StateConnecting>>,
     <<StateEstablished, StateDown>>,
     <<StateConnecting, StateDown>>,
     <<StateError, StateDown>>}
    \cup {<<state, StateError>> : state \in TunnelState}

\* C18 as claimed: two successive reports about a tunnel give the same state
\* or two states joined by a listed transition; in particular Established is
\* never reported right after Down.
C18_ReportsFollowListedEdges ==
    \A name \in StatusTunnels :
        \/ prevReport[name] = "none"
        \/ prevReport[name] = lastReport[name]
        \/ <<prevReport[name], lastReport[name]>> \in ListedEdges

\* C19 as claimed: a tunnel with autostart whose reported state is none of
\* the five defined ones is handled by the watchdog as one in Error state: it
\* gets one Start call in the pass.
C19_UndefinedStateRestarted ==
    wdPC = "pass" =>
        \A n \in DOMAIN wdObserved :
            wdTunnels[n].AutoStart /\ wdObserved[n] = StateUndefined =>
                StartCount(n) = 1

(***************************************************************************)
(* Properties of the node identity.                                        *)
(***************************************************************************)
\* C20 as claimed: whatever number of agent processes was started on the
\* node, all its registrations and policy fetches carried one and the same
\* node id.
C20_OneIdAcrossRestarts ==
    Cardinality(registeredAs \cup fetchedAs) <= 1

(***************************************************************************)
(* Properties of Validate.                                                 *)
(***************************************************************************)
\* the structural rules: a name, at least one tunnel, and for every tunnel a
\* name, both addresses and at least one selector, every selector with both
\* subnets
StructuralRules(policy) ==
    /\ policy.Name # ""
    /\ Len(policy.Tunnels) >= 1
    /\ \A i \in DOMAIN policy.Tunnels :
          LET t == policy.Tunnels[i]
          IN  /\ t.Name # "" /\ t.LocalAddress # "" /\ t.RemoteAddress # ""
              /\ Len(t.TrafficSelectors) >= 1
              /\ \A k \in DOMAIN t.TrafficSelectors :
                    /\ t.TrafficSelectors[k].LocalSubnet # ""
                    /\ t.TrafficSelectors[k].RemoteSubnet # ""

\* the number of characters of a string
CharLen(str) == Len(str)

\* the PSK rule: the secret of a PSK tunnel has at least 8 characters
SecretLongEnough(t) == t.Auth.Type = AuthPSK => CharLen(t.Auth.Secret) >= 8

\* the security rules other than the PSK rule: certificate authentication has
\* both paths, the algorithms are supported ones, the lifetime is between 5
\* minutes and 24 hours
OtherSecurityRules(t) ==
    /\ t.Auth.Type = AuthCertificate => t.Auth.CertPath # "" /\ t.Auth.KeyPath # ""
    /\ isValidEncryption(t.Crypto.Encryption)
    /\ isValidIntegrity(t.Crypto.Integrity)
    /\ isValidDHGroup(t.Crypto.DHGroup)
    /\ t.Crypto.Lifetime >= 5 /\ t.Crypto.Lifetime <= 24 * 60

SecurityRules(policy) ==
    \A i \in DOMAIN policy.Tunnels :
        SecretLongEnough(policy.Tunnels[i]) /\ OtherSecurityRules(policy.Tunnels[i])

\* the platform rule: GCM encryption only with IKEv2
PlatformRules(policy) ==
    \A i \in DOMAIN policy.Tunnels :
        policy.Tunnels[i].Crypto.Encryption \in {"aes128gcm", "aes256gcm"} =>
            policy.Tunnels[i].Crypto.IKEVersion = IKEv2

Validated == valResult # Pending

\* C21 as claimed: Validate returns an error exactly for the policies that
\* break a structural, security or platform rule, the PSK rule being that the
\* secret has at least 8 characters.
C21_RejectsExactlyTheViolations ==
    Validated =>
        ((valResult # Accepted) <=>
            ~(StructuralRules(valPolicy) /\ SecurityRules(valPolicy) /\ PlatformRules(valPolicy)))

\* C22 as claimed: a policy that breaks no rule except that a PSK tunnel of
\* it has a secret of fewer than 8 characters is rejected with an error of the
\* security validator about the PSK secret.
C22_ShortSecretRejected ==
    /\ Validated
    /\ StructuralRules(valPolicy)
    /\ PlatformRules(valPolicy)
    /\ \A i \in DOMAIN valPolicy.Tunnels : OtherSecurityRules(valPolicy.Tunnels[i])
    /\ \E i \in DOMAIN valPolicy.Tunnels : ~SecretLongEnough(valPolicy.Tunnels[i])
    => /\ valResult.group = "security"
       /\ valResult.rule \in {"PSK secret is required",
                              "PSK secret must be at least 8 characters"}

\* the tunnels of a policy, by Go index, that a group's check refuses
Offending(policy, Check(_)) ==
    {i \in 0..(Len(policy.Tunnels) - 1) : Check(policy.Tunnels[i + 1]) # "ok"}

\* the policy breaks a structural rule about the policy itself
PolicyLevelViolation(policy) == policy.Name = "" \/ Len(policy.Tunnels) = 0

\* the earliest group, in the order structural, security, platform, of which
\* the policy breaks a rule
EarliestGroup(policy) ==
    IF PolicyLevelViolation(policy) \/ Offending(policy, validateTunnel) # {}
    THEN "structural"
    ELSE IF Offending(policy, SecurityCheck) # {} THEN "security"
    ELSE IF Offending(policy, PlatformCheck) # {} THEN "platform"
    ELSE "none"

\* the tunnels the group with that name refuses
OffendingOf(policy, group) ==
    IF group = "structural" THEN Offending(policy, validateTunnel)
    ELSE IF group = "security" THEN Offending(policy, SecurityCheck)
    ELSE Offending(policy, PlatformCheck)

\* C30: the error Validate returns is of the earliest group, in the order
\* structural, security, platform, of which any tunnel breaks a rule; unless
\* it is about the policy itself it carries the index and the name of the
\* first tunnel that breaks a rule of that group.
C30_EarliestGroupFirstTunnel ==
    Validated =>
        /\ valResult.group = EarliestGroup(valPolicy)
        /\ (valResult # Accepted /\ ~PolicyLevelViolation(valPolicy)) =>
              /\ valResult.index \in OffendingOf(valPolicy, valResult.group)
              /\ \A i \in OffendingOf(valPolicy, valResult.group) : valResult.index <= i
              /\ valResult.name = valPolicy.Tunnels[valResult.index + 1].Name

\* a policy whose first tunnel breaks a security rule and whose second tunnel
\* breaks a structural rule is refused for the second tunnel
C30_Witness ==
    /\ Validated
    /\ Len(valPolicy.Tunnels) = 2
    /\ 0 \in Offending(valPolicy, SecurityCheck)
    /\ 0 \notin Offending(valPolicy, validateTunnel)
    /\ valPolicy.Tunnels[2].Name # ""
    /\ valResult.group = "structural"
    /\ valResult.index = 1
    /\ valResult.name = valPolicy.Tunnels[2].Name

\* every row holds a policy Validate accepts; a create or update answered
\* with success was of a policy Validate accepted and the table holds it; one
\* of a policy Validate refuses was answered 400
SavedWereValidated ==
    /\ \A id \in DOMAIN policiesTable : Validate(policiesTable[id]) = Accepted
    /\ httpResponse.op \in {"create", "update"} =>
          /\ httpResponse.status \in {StatusCreated, StatusOK} =>
                /\ Validate(httpResponse.policy) = Accepted
                /\ \E id \in DOMAIN policiesTable :
                      /\ policiesTable[id].Name = httpResponse.policy.Name
                      /\ policiesTable[id].Tunnels = httpResponse.policy.Tunnels
          /\ Validate(httpResponse.policy) # Accepted =>
                httpResponse.status = StatusBadRequest

\* a request answered with an error leaves the table as it was
ErrorLeavesTable ==
    /\ requestsLeft' # requestsLeft
    /\ httpResponse'.status \in {StatusBadRequest, StatusNotFound, StatusInternalServerError}
    => policiesTable' = policiesTable

\* C23: over any sequence of create, update and delete requests every row of
\* the policies table holds a policy Validate accepted when it was saved; a
\* submission Validate refuses is answered with an error (400) and leaves the
\* table unchanged.
C23_StoredPoliciesValid == []SavedWereValidated /\ [][ErrorLeavesTable]_vars

\* a policy was saved, and afterwards a submission that breaks a rule was
\* answered 400
C23_Witness ==
    /\ DOMAIN policiesTable # {}
    /\ httpResponse.op \in {"create", "update"}
    /\ httpResponse.status = StatusBadRequest
    /\ httpResponse.policy.Name # ""
    /\ Validate(httpResponse.policy) # Accepted

\* C24 as claimed: the token is "<encryption>-<integrity>-<dhgroup>", the
\* same for the same suite, and the AH proposal of a tunnel is that token too.
C24_OneTokenForEspAndAh ==
    genData.generated =>
        /\ genData.ESPProposal =
              genConfig.Crypto.Encryption \o "-" \o genConfig.Crypto.Integrity
                  \o "-" \o genConfig.Crypto.DHGroup
        /\ genPrev.generated => genPrev = genData
        /\ genData.AHProposal = genData.ESPProposal

\* C24, amended: the ESP proposal is "<encryption>-<integrity>-<dhgroup>" and
\* the AH proposal is "<integrity>-<dhgroup>"; both depend on the suite only,
\* so a tunnel generated twice gets the same two tokens.
C24_ProposalTokens ==
    genData.generated =>
        /\ genData.ESPProposal =
              genConfig.Crypto.Encryption \o "-" \o genConfig.Crypto.Integrity
                  \o "-" \o genConfig.Crypto.DHGroup
        /\ genData.AHProposal =
              genConfig.Crypto.Integrity \o "-" \o genConfig.Crypto.DHGroup
        /\ genPrev.generated => genPrev = genData

\* the configuration of an ESP+AH tunnel with aes256, sha256 and modp2048 was
\* generated twice
C24_Witness ==
    /\ genPrev.generated
    /\ genData.UseAH
    /\ genData.ESPProposal = "aes256-sha256-modp2048"
    /\ genData.AHProposal = "sha256-modp2048"

\* the step is a failed UpdateTunnel for the name
UpdateFailed(name) ==
    CopiesIn(Call("update", name, TRUE), calls') > CopiesIn(Call("update", name, TRUE), calls)

\* C25 as claimed: when UpdateTunnel fails for a tunnel that has a
\* configuration, the tunnel keeps that configuration and is still listed.
C25_FailedUpdateKeepsConfig ==
    [][\A name \in TunnelNames :
          UpdateFailed(name) /\ name \in DOMAIN confd =>
              /\ name \in DOMAIN confd'
              /\ confd'[name] = confd[name]]_vars

\* C26 as claimed: for a tunnel with autostart that stays Down the watchdog
\* calls StartTunnel at most 3 times.
C26_AtMostThreeRestarts ==
    \A n \in DOMAIN tickStarts : Watched(tickTunnels[n]) => tickStarts[n] <= 3

(***************************************************************************)
(* Properties of the loops around a.mu.                                    *)
(***************************************************************************)
\* the loop iterates over its copy
Iterating(l) == muPC[l] = "calls"

\* C27: under every interleaving of the three loops the mapping a health or
\* watchdog pass iterates over is the initial empty mapping or a mapping the
\* sync assigned at the end of a finished applyPolicies, as a whole; the
\* desired mapping of an applyPolicies in progress is not among them before
\* it is assigned.
C27_SnapshotIsRecordedMapping ==
    \A l \in Readers : Iterating(l) => muSnapshot[l] \in muRecorded

\* a pass iterates over the mapping of the first applyPolicies while a second
\* one with another desired mapping is at its backend calls, and another
\* while the sync holds the lock to assign it
C27_Witness ==
    \E l \in Readers :
        /\ Iterating(l)
        /\ muSnapshot[l] # EmptyMap
        /\ muPC["sync"] = "holdT"
        /\ muDesired # muSnapshot[l]
        /\ muDesired \notin muRecorded
        /\ DOMAIN muDesired = DOMAIN muSnapshot[l]

\* C28 as claimed: whenever some loop is inside a backend call or a request
\* to the policy source, nobody holds a.mu.
C28_NobodyHoldsLockDuringCalls ==
    (\E l \in Loops : InCall(l)) => mu = Unlocked

\* no loop is inside a call while it holds a.mu itself
NoLockAcrossCall == \A l \in Loops : InCall(l) => l \notin mu.readers /\ mu.writer # l

\* every loop whose goroutine is not stuck in a call ends all its ticks
OthersFinish ==
    <>[](\A l \in Loops : Runs(l) => muPC[l] = "idle" /\ muTicks[l] = 0)

\* C28, amended: a loop that is inside a backend call or a request to the
\* policy source does not hold a.mu itself; so when the call of one loop never
\* returns, every other loop still completes its ticks, the sync loop
\* recording its mappings.
C28_NoLockAcrossOwnCalls == []NoLockAcrossCall /\ OthersFinish

\* the watchdog is stuck in a call, and the sync has recorded a mapping since
\* and the health loop is iterating over it
C28_Witness ==
    /\ muHung = "watchdog"
    /\ muTunnels # muSnapshot["watchdog"]
    /\ muTunnels # EmptyMap
    /\ Iterating("health")
    /\ muSnapshot["health"] = muTunnels
    /\ muTicks["sync"] = 0
    /\ muPC["sync"] = "idle"

(***************************************************************************)
(* Properties of the recording of applyPolicies.                           *)
(***************************************************************************)
\* applyPolicies returns in this step
ReconcileFinishes == syncPC = "apply" /\ syncPC' = "idle"

\* a create or update was issued for every desired name and a delete for
\* every listed name that is not desired
AllCallsIssued ==
    /\ \A n \in DOMAIN desiredTunnels :
          \E err \in BOOLEAN :
              BagIn(Call("create", n, err), calls) \/ BagIn(Call("update", n, err), calls)
    /\ \A n \in DeleteCandidates(currentNames, desiredTunnels) :
          \E err \in BOOLEAN : BagIn(Call("delete", n, err), calls)

\* C29: when applyPolicies finishes, a.currentTunnels is its desired mapping
\* exactly, whatever calls failed, and a.currentTunnels changes in no other
\* step: only after every create, update and delete has been issued.
C29_RecordedAtTheEnd ==
    [][/\ ReconcileFinishes =>
             /\ desiredTunnels = DesiredTunnels(fetched)
             /\ currentTunnels' = desiredTunnels
             /\ AllCallsIssued
       /\ currentTunnels' # currentTunnels => ReconcileFinishes]_vars

\* an applyPolicies has finished of which a create or update failed, and the
\* failed tunnel is in the recorded mapping
C29_Witness ==
    /\ syncPC = "idle"
    /\ lastSync = "applied"
    /\ \E n \in DOMAIN currentTunnels :
          BagIn(Call("create", n, TRUE), calls) \/ BagIn(Call("update", n, TRUE), calls)
    /\ currentTunnels = DesiredTunnels(fetched)

(***************************************************************************)
(* Properties of the security and platform validators.                     *)
(***************************************************************************)
\* the policy with the SA lifetime of every tunnel set to the value
WithLifetime(policy, minutes) ==
    [policy EXCEPT !.Tunnels = [i \in DOMAIN @ |-> [@[i] EXCEPT !.Crypto.Lifetime = minutes]]]

\* the SA lifetime is within 5 minutes and 24 hours, both included
LifetimeInBounds(t) == t.Crypto.Lifetime >= 5 /\ t.Crypto.Lifetime <= 24 * 60

\* C31: a policy that Validate accepts with SA lifetimes of one hour is
\* accepted exactly when every SA lifetime is at least 5 minutes and at most 24
\* hours, those two values included; otherwise it is refused by the security
\* validator for the lifetime of the first tunnel outside the interval.
C31_LifetimeClosedInterval ==
    Validated /\ Validate(WithLifetime(valPolicy, 60)) = Accepted =>
        /\ valResult = Accepted <=>
              \A i \in DOMAIN valPolicy.Tunnels : LifetimeInBounds(valPolicy.Tunnels[i])
        /\ valResult # Accepted =>
              /\ valResult.group = "security"
              /\ ~LifetimeInBounds(valPolicy.Tunnels[valResult.index + 1])
              /\ valResult.rule \in {"SA lifetime must be specified",
                                     "SA lifetime too short (minimum 5 minutes)",
                                     "SA lifetime too long (maximum 24 hours)"}

\* a policy with a tunnel of exactly 5 minutes and one of exactly 24 hours
\* was accepted
C31_Witness ==
    /\ valResult = Accepted
    /\ \E i \in DOMAIN valPolicy.Tunnels : valPolicy.Tunnels[i].Crypto.Lifetime = 5
    /\ \E i \in DOMAIN valPolicy.Tunnels : valPolicy.Tunnels[i].Crypto.Lifetime = 24 * 60

\* the policy with the mode of every tunnel set to the value
WithMode(policy, mode) ==
    [policy EXCEPT !.Tunnels = [i \in DOMAIN @ |-> [@[i] EXCEPT !.Mode = mode]]]

\* the tunnel uses a GCM cipher with another key exchange than IKEv2
GcmWithoutIKEv2(t) ==
    t.Crypto.Encryption \in {"aes128gcm", "aes256gcm"} /\ t.Crypto.IKEVersion # IKEv2

\* C32: a policy with a tunnel that uses aes128gcm or aes256gcm with another
\* key exchange than IKEv2 is refused, by the platform validator when the
\* other two accept it; and the modes of the tunnels make no difference to
\* what Validate returns.
C32_GcmNeedsIKEv2ModesPass ==
    Validated =>
        /\ (\E i \in DOMAIN valPolicy.Tunnels : GcmWithoutIKEv2(valPolicy.Tunnels[i])) =>
              valResult # Accepted
        /\ BasicValidate(valPolicy) = Accepted /\ SecurityValidate(valPolicy) = Accepted =>
              (valResult # Accepted <=>
                  /\ valResult.group = "platform"
                  /\ GcmWithoutIKEv2(valPolicy.Tunnels[valResult.index + 1]))
        /\ \A mode \in IPsecModes : valResult = Validate(WithMode(valPolicy, mode))

\* an ESP+AH tunnel and an AH tunnel were accepted together
C32_Witness ==
    /\ valResult = Accepted
    /\ \E i \in DOMAIN valPolicy.Tunnels : valPolicy.Tunnels[i].Mode = ModeESPAHTunnel
    /\ \E i \in DOMAIN valPolicy.Tunnels : valPolicy.Tunnels[i].Mode = ModeAHTransport

(***************************************************************************)
(* Properties of FilterPoliciesForPeer.                                    *)
(***************************************************************************)
\* how often the value occurs in the list
Occurrences(list, v) == Cardinality({i \in DOMAIN list : list[i] = v})

\* the policy applies to the peer: it is enabled and has no targets, or one
\* of its targets is the peer's id, "*" or a tag of the peer
AppliesToPeer(pol, peer) ==
    /\ pol.Enabled
    /\ \/ Len(pol.AppliesTo) = 0
       \/ \E i \in DOMAIN pol.AppliesTo :
             \/ pol.AppliesTo[i] = peer.ID
             \/ pol.AppliesTo[i] = "*"
             \/ \E k \in DOMAIN peer.Tags : peer.Tags[k] = pol.AppliesTo[i]

\* C33 as claimed: every applicable policy occurs in the result of
\* FilterPoliciesForPeer as often as in the input, and no other policy occurs
\* in it.
C33_FilterKeepsMultiplicity ==
    engPhase # "input" =>
        \A i \in DOMAIN inPolicies :
            Occurrences(outFiltered, inPolicies[i]) =
                IF AppliesToPeer(inPolicies[i], inPeer)
                THEN Occurrences(inPolicies, inPolicies[i])
                ELSE 0

(***************************************************************************)
(* Properties of the watchdog beside a running applyPolicies.              *)
(***************************************************************************)
\* the number of StartTunnel calls of the watchdog pass for the name
StartsFor(starts, name) ==
    CopiesIn(Call("start", name, FALSE), starts) + CopiesIn(Call("start", name, TRUE), starts)

\* the applyPolicies in progress, or the last one, called DeleteTunnel for
\* the name, which its desired mapping does not hold
DeletedByReconcile(name) ==
    /\ name \notin DOMAIN desiredTunnels
    /\ BagIn(Call("delete", name, FALSE), calls) \/ BagIn(Call("delete", name, TRUE), calls)

\* C34 as claimed: the watchdog calls StartTunnel for no tunnel that an
\* applyPolicies has called DeleteTunnel for because it is not desired any
\* more.
C34_NoStartAfterDelete ==
    [][\A name \in TunnelNames :
          StartsFor(wdStarts', name) > StartsFor(wdStarts, name) => ~DeletedByReconcile(name)]_vars

(***************************************************************************)
(* Properties of applyPolicies when ListTunnels fails.                     *)
(***************************************************************************)
\* C35: when ListTunnels returned an error, applyPolicies goes on with no
\* current names: all its calls are CreateTunnel calls, one for each desired
\* name when it has returned, none is an UpdateTunnel or a DeleteTunnel, and
\* the desired mapping is recorded.
C35_ListFailureCreatesAll ==
    listErr =>
        /\ syncPC = "apply" => \A c \in BagToSet(calls) : c.op = "create"
        /\ Reconciled =>
              /\ ExactlyOneEach(calls, "create", DOMAIN desiredTunnels)
              /\ ExactlyOneEach(calls, "update", {})
              /\ ExactlyOneEach(calls, "delete", {})
              /\ currentTunnels = desiredTunnels

\* ListTunnels failed over a directory with a file that is desired and a file
\* that is not, and applyPolicies has returned
C35_Witness ==
    /\ listErr
    /\ Reconciled
    /\ \E n \in DOMAIN confd : n \notin DOMAIN desiredTunnels
    /\ \E n \in DOMAIN confd : CallCount(calls, "create", n) = 1
    /\ currentTunnels # EmptyMap

(***************************************************************************)
(* Properties of the agent after Stop has returned.                        *)
(***************************************************************************)
\* a pass of the loop issues a request: syncPolicies always sends its GET to
\* the policy server (lines 182-188), checkHealth and watchdogCheck call
\* GetTunnelStatus for every recorded tunnel
PassIssuesCalls(l) == l = "sync" \/ DOMAIN currentTunnels # {}

\* C36: once Stop has returned, cleanly or because the grace period expired,
\* no loop whose pass issues a backend call or a policy-source request begins
\* a pass.
C36_QuietAfterStop ==
    [][Returned =>
          \A l \in Loops :
              PassIssuesCalls(l) => ~(loopPC[l] = "select" /\ loopPC'[l] = "tick")]_vars

\* C37: a further call of Stop on the same agent, after the first call has
\* returned or while it waits, does not end the process with a panic; and a
\* Stop on an agent that was never started returns without waiting: no time of
\* the grace period passes and it does not return by the timer.
C37_StopRepeatable ==
    /\ stopAgain # "panicked"
    /\ agentPC = "new" /\ stopPC # "none" =>
          graceLeft = GracePeriod /\ stopPC # "timed-out"

(***************************************************************************)
(* Properties of a failed CreateTunnel.                                    *)
(***************************************************************************)
\* the step is a CreateTunnel call for the name that returned an error
CreateFailed(name) ==
    CopiesIn(Call("create", name, TRUE), calls') > CopiesIn(Call("create", name, TRUE), calls)

\* C38: when CreateTunnel returns an error, a ListTunnels that follows
\* reports the same names as one before the call: the tunnel whose create
\* failed is not listed unless it was listed before.
C38_FailedCreateLeavesListing ==
    [][\A name \in TunnelNames :
          CreateFailed(name) => ListTunnels(confd', FALSE) = ListTunnels(confd, FALSE)]_vars

(***************************************************************************)
(* Properties of the generated child section.                              *)
(***************************************************************************)
TunnelModes == {ModeESPTunnel, ModeAHTunnel, ModeESPAHTunnel}

TransportModes == {ModeESPTransport, ModeAHTransport}

\* C39: the generated child section has mode = tunnel exactly for the tunnel
\* modes (esp-tunnel, ah-tunnel, esp-ah-tunnel) and mode = transport exactly
\* for the transport modes (esp-transport, ah-transport), and it has an
\* ah_proposals line exactly for the AH and the ESP+AH modes.
C39_ModeRendering ==
    genData.generated =>
        /\ genData.childMode = "tunnel" <=> genConfig.Mode \in TunnelModes
        /\ genData.childMode = "transport" <=> genConfig.Mode \in TransportModes
        /\ genData.ahProposals # "" <=>
              genConfig.Mode \in {ModeAHTunnel, ModeAHTransport, ModeESPAHTunnel}

====
